---- MODULE Spec2Model ----
(***************************************************************************)
(* A model of the nfp-rsp debug bridge: the RSP server (framing, acks,     *)
(* dispatch, register / memory / breakpoint handlers, the accept and       *)
(* packet loops) on top of the RISC-V Debug Module driver.                 *)
(*                                                                         *)
(* Representation.  A byte is an integer 0..255 and text is a sequence of  *)
(* bytes.  A u64 is a tuple of 8 bytes, most significant byte first, so    *)
(* that swap_bytes, the hex formatting and the hex parsing of the code are *)
(* modelled by what they do to the digits; a u32 is a tuple of 4 bytes.    *)
(***************************************************************************)
EXTENDS Integers, Sequences, FiniteSets, TLC

(***************************************************************************)
(* Text                                                                    *)
(***************************************************************************)
AsciiChars ==
  << " ", "!", "dquote", "#", "$", "%", "&", "'", "(", ")", "*", "+", ",", "-", ".", "/",
     "0", "1", "2", "3", "4", "5", "6", "7", "8", "9", ":", ";", "<", "=", ">", "?",
     "@", "A", "B", "C", "D", "E", "F", "G", "H", "I", "J", "K", "L", "M", "N", "O",
     "P", "Q", "R", "S", "T", "U", "V", "W", "X", "Y", "Z", "[", "backslash", "]", "^", "_",
     "backtick", "a", "b", "c", "d", "e", "f", "g", "h", "i", "j", "k", "l", "m", "n", "o",
     "p", "q", "r", "s", "t", "u", "v", "w", "x", "y", "z", "{", "|", "}", "~" >>

\* The ASCII code of a one-character string.
Ord(c) == 31 + (CHOOSE i \in 1..Len(AsciiChars) : AsciiChars[i] = c)

\* A tuple of one-character strings as a byte sequence.
Str(s) == [i \in 1..Len(s) |-> Ord(s[i])]

Range(f) == {f[i] : i \in DOMAIN f}

\* The position of the first occurrence of byte b in s, 0 when absent
\* (Iterator::position, with 0 standing for None and positions from 1).
Position(s, b) ==
  IF \E i \in 1..Len(s) : s[i] = b
  THEN CHOOSE i \in 1..Len(s) : s[i] = b /\ \A j \in 1..(i - 1) : s[j] # b
  ELSE 0

\* A prefix test that compares the first byte only.
StartsWithFirstByte(s, key) ==
  /\ Len(key) <= Len(s)
  /\ key # << >> => s[1] = key[1]

\* str::starts_with on byte strings.
StartsWith(s, key) ==
  /\ Len(key) <= Len(s)
  /\ \A i \in 1..Len(key) : s[i] = key[i]

Drop(s, n) == IF n >= Len(s) THEN << >> ELSE SubSeq(s, n + 1, Len(s))
Take(s, n) == IF n >= Len(s) THEN s ELSE SubSeq(s, 1, n)

(***************************************************************************)
(* Hexadecimal text and fixed-width integers                               *)
(***************************************************************************)
\* One lowercase hex digit, as the x format prints it.
HexDigit(n) == IF n < 10 THEN 48 + n ELSE 87 + n

\* char::to_digit(16): -1 for a byte that is not a hex digit.  Bytes above
\* 0x7f reach the parser as U+FFFD (from_utf8_lossy) and are no digits.
HexVal(c) ==
  IF c \in 48..57 THEN c - 48
  ELSE IF c \in 97..102 THEN c - 87
  ELSE IF c \in 65..70 THEN c - 55
  ELSE -1

RECURSIVE StripZeros(_)
StripZeros(n) == IF n # << >> /\ Head(n) = 0 THEN StripZeros(Tail(n)) ELSE n

\* With(v, F) is F(v): the value v is computed once and named by F's
\* parameter, the way a let binding of the code names a result.
With(v, F(_)) == F(v)

Err == [ok |-> FALSE, val |-> << >>]
Ok(v) == [ok |-> TRUE, val |-> v]

\* The digits uN::from_str_radix(text, 16) accepts: an optional '+' and
\* then at least one hex digit; the result is the significant nibbles.
ParseDigits(digits) ==
  IF digits = << >> \/ \E i \in 1..Len(digits) : HexVal(digits[i]) = -1
  THEN Err
  ELSE Ok(StripZeros([i \in 1..Len(digits) |-> HexVal(digits[i])]))

ParseNibbles(text) ==
  ParseDigits(IF text # << >> /\ Head(text) = 43 THEN Tail(text) ELSE text)

\* The i-th of the 16 nibbles of a u64 whose significant nibbles are n.
Nibble(n, i) == IF i <= 16 - Len(n) THEN 0 ELSE n[i - (16 - Len(n))]

\* u64::from_str_radix(text, 16): 8 bytes, most significant first.
ParseU64(text) ==
  With(ParseNibbles(text),
       LAMBDA p : IF ~p.ok \/ Len(p.val) > 16 THEN Err
                  ELSE Ok([k \in 1..8 |-> 16 * Nibble(p.val, 2 * k - 1)
                                            + Nibble(p.val, 2 * k)]))

\* u8::from_str_radix(text, 16).
ParseU8(text) ==
  With(ParseNibbles(text),
       LAMBDA p : IF ~p.ok \/ Len(p.val) > 2 THEN Err
                  ELSE IF Len(p.val) = 0 THEN Ok(0)
                  ELSE IF Len(p.val) = 1 THEN Ok(p.val[1])
                  ELSE Ok(16 * p.val[1] + p.val[2]))

\* format!("{:02x}", byte)
Fmt02x(b) == << HexDigit(b \div 16), HexDigit(b % 16) >>

\* format!("{:016x}", v)
Fmt016x(v) ==
  [i \in 1..16 |-> HexDigit(IF i % 2 = 1 THEN v[(i + 1) \div 2] \div 16
                                         ELSE v[i \div 2] % 16)]

\* u64::swap_bytes / u32::swap_bytes
swap_bytes(v) == [i \in 1..Len(v) |-> v[Len(v) + 1 - i]]

Zero64 == << 0, 0, 0, 0, 0, 0, 0, 0 >>

\* An address handed on as it is, without the mask.
MaskNothing(v) == v

\* address & 0x0000_0000_FFFF_FFFF
MaskLow32(v) == [i \in 1..8 |-> IF i <= 4 THEN 0 ELSE v[i]]

\* ((address >> 48) & 0xF) == 0x1
IsCtm(v) == v[2] % 16 = 1

\* A u64 below 2^23 as an integer (the modelled target addresses are small),
\* -1 for anything larger.
ToInt(v) ==
  IF \E i \in 1..5 : v[i] # 0 THEN -1
  ELSE IF v[6] >= 128 THEN -1
  ELSE 65536 * v[6] + 256 * v[7] + v[8]

\* The u64 of a small non-negative integer.
FromInt(n) ==
  << 0, 0, 0, 0, 0, (n \div 65536) % 256, (n \div 256) % 256, n % 256 >>

(***************************************************************************)
(* Framing                                                                 *)
(***************************************************************************)
\* The fold of u8::wrapping_add over data[lo..hi]; addition modulo 256 is
\* associative, so the range is summed by halves.
RECURSIVE WrappingSum(_, _, _)
WrappingSum(data, lo, hi) ==
  IF lo > hi THEN 0
  ELSE IF lo = hi THEN data[lo] % 256
  ELSE (WrappingSum(data, lo, (lo + hi) \div 2)
          + WrappingSum(data, ((lo + hi) \div 2) + 1, hi)) % 256

\* RspServer::calculate_rsp_checksum
calculate_rsp_checksum(data) == WrappingSum(data, 1, Len(data))

\* A format_rsp_packet whose checksum covers the '$' too.
format_rsp_packet_sums_dollar(response) ==
  << 36 >> \o response \o << 35 >> \o Fmt02x(calculate_rsp_checksum(<< 36 >> \o response))

\* RspServer::format_rsp_packet
format_rsp_packet(response) ==
  << 36 >> \o response \o << 35 >> \o Fmt02x(calculate_rsp_checksum(response))

\* A body loop that drops the escape byte and keeps the byte after it.
RECURSIVE UnescapeKeepsByte(_, _)
UnescapeKeepsByte(raw, escaped) ==
  IF raw = << >> THEN << >>
  ELSE IF Head(raw) = 125 /\ ~escaped THEN UnescapeKeepsByte(Tail(raw), TRUE)
  ELSE << Head(raw) >> \o UnescapeKeepsByte(Tail(raw), FALSE)

\* The body loop of parse_rsp_packet: buffer from the raw bytes, undoing the
\* 0x7d escape.
RECURSIVE Unescape(_, _)
Unescape(raw, escaped) ==
  IF raw = << >> THEN << >>
  ELSE IF escaped THEN << (Head(raw) + 32 - 64 * ((Head(raw) \div 32) % 2)) >>
                       \o Unescape(Tail(raw), FALSE)
  ELSE IF Head(raw) = 125 THEN Unescape(Tail(raw), TRUE)
  ELSE << Head(raw) >> \o Unescape(Tail(raw), FALSE)

\* The value the code compares the computed checksum with: the two trailer
\* bytes parsed as hex, 0 when they do not parse (unwrap_or(0)).
received_checksum(trailer) ==
  With(ParseU8(trailer), LAMBDA p : IF p.ok THEN p.val ELSE 0)

(***************************************************************************)
(* Bounds                                                                  *)
(***************************************************************************)
\* The number of 64-bit words of DM-reachable target memory that is modelled.
MemWords == 2
\* The number of 32-bit words of cluster-target memory that is modelled.
CtmWords == 1
\* The longest list of client features the model lets qSupported build up.
MaxFeatures == 1

(***************************************************************************)
(* The target: register numbers, the hart's registers and memory           *)
(***************************************************************************)
\* RfpcGpr::reg_addr: 0x1000 + n (bit 12 set for a GPR).
GprAddr(n) == 4096 + n

\* RfpcCsr::reg_addr for the CSRs in the order of the register file:
\* Mstatus, Misa, Medeleg, Mideleg, Mie, Mtvec, Mscratch, Mepc, Mcause,
\* Mtval, Mip, Dcsr, Dpc, Dscratch0, Dscratch1, Mlmemprot, Mafstatus,
\* Mcycle, Minstret, Cycle, Time, Instret, Mvendorid, Marchid, Mimpid,
\* Mhartid.
csr_regs ==
  << 768, 769, 770, 771, 772, 773, 832, 833, 834, 835, 836, 1968, 1969, 1970,
     1971, 1984, 1985, 2816, 2818, 3072, 3073, 3074, 3857, 3858, 3859, 3860 >>

\* The GPR table of read_reg / write_reg: X0..X31.
gpr_regs == [n \in 1..32 |-> GprAddr(n - 1)]

RegNos == Range(gpr_regs) \cup Range(csr_regs)

\* Byte addresses of the modelled DM-reachable memory, from 0x2000.
MemAddrs == 8192..(8192 + 8 * MemWords - 1)

\* Word addresses of the modelled cluster-target memory, from 0x1000.
CtmAddrs == {4096 + 4 * k : k \in 0..(CtmWords - 1)}

\* Register contents before the session: every register holds a different
\* value; x0 reads as zero and dcsr is 0x40000003 (no cause, no step).
InitReg(r) ==
  IF r = GprAddr(0) THEN Zero64
  ELSE IF r = csr_regs[12] THEN << 0, 0, 0, 0, 64, 0, 0, 3 >>
  ELSE << 17, 34, 51, 68, 85, 102, r \div 256, r % 256 >>

\* Memory contents before the session: 0x0000000012345678 at 0x2000, and
\* words with a non-zero upper half above it.
InitMem(a) ==
  LET off == a - 8192
  IN  IF off < 4 THEN << 120, 86, 52, 18 >>[off + 1]
      ELSE IF off < 8 THEN 0
      ELSE 16 + off

\* 0xDEADBEEF at CTM 0x1000, then distinct words.
InitCtm(a) ==
  IF a = 4096 THEN << 222, 173, 190, 239 >> ELSE << 1, 2, 3, (a \div 4) % 256 >>

\* The 64-bit little-endian word at byte address a (most significant byte
\* first), and the store of one.
Load64(m, a) == [i \in 1..8 |-> m[a + 8 - i]]
Store64(m, a, v) ==
  [x \in DOMAIN m |-> IF x \in a..(a + 7) THEN v[8 - (x - a)] ELSE m[x]]

\* v + n modulo 2^64, for a small n.
RECURSIVE CarryIn(_, _, _)
CarryIn(v, n, i) ==
  IF i = 8 THEN n ELSE (v[i + 1] + CarryIn(v, n, i + 1)) \div 256
AddU64(v, n) == [i \in 1..8 |-> (v[i] + CarryIn(v, n, i)) % 256]

(***************************************************************************)
(* The Debug Module as the driver sees it.  t is the target:               *)
(*   reg       the hart's GPRs and CSRs by abstract register number,       *)
(*   mem       DM-reachable memory, by byte,                               *)
(*   data      data1:data0,  progbuf0  the instruction in the buffer,      *)
(*   hart      "halted" or "running",  cmderr  abstractcs.cmderr,          *)
(*   busy      abstractcs.busy as the driver's poll finds it.              *)
(***************************************************************************)
ReadRegNo(t, regno) == IF regno = GprAddr(0) THEN Zero64 ELSE t.reg[regno]

WriteRegNo(t, regno, v) ==
  IF regno = GprAddr(0) THEN t ELSE [t EXCEPT !.reg[regno] = v]

\* The instructions the driver puts into progbuf0.
LdA0 == [op |-> "ld a0, 0(a0)", csr |-> 0]
SdA1 == [op |-> "sd a1, 0(a0)", csr |-> 0]
CsrwA1(csr) == [op |-> "csrrw x0, csr, a1", csr |-> csr]

\* A 64-bit access at byte address a (-1: outside the address space that is
\* modelled) hits memory.
InMem(a) == a # -1 /\ a \in MemAddrs /\ (a + 7) \in MemAddrs

\* The hart executing progbuf0 with a0 = a; a failing access ends the
\* command with cmderr = 3 (exception).
ExecAt(t, a) ==
  IF t.progbuf0 = LdA0
  THEN IF InMem(a) THEN WriteRegNo(t, GprAddr(10), Load64(t.mem, a))
       ELSE [t EXCEPT !.cmderr = 3]
  ELSE IF t.progbuf0 = SdA1
  THEN IF InMem(a)
       THEN [t EXCEPT !.mem = Store64(t.mem, a, ReadRegNo(t, GprAddr(11)))]
       ELSE [t EXCEPT !.cmderr = 3]
  ELSE IF t.progbuf0.op = CsrwA1(0).op /\ t.progbuf0.csr \in RegNos
  THEN WriteRegNo(t, t.progbuf0.csr, ReadRegNo(t, GprAddr(11)))
  ELSE [t EXCEPT !.cmderr = 3]

ExecProgbuf(t) == ExecAt(t, ToInt(ReadRegNo(t, GprAddr(10))))

\* The fields of an Access Register command: bit 16 is write, bit 17
\* transfer, bit 18 postexec, bits 15:0 regno.
CmdRegno(cmd) == cmd % 65536
CmdBit(cmd, bit) == (cmd \div bit) % 2 = 1

\* The transfer part of the command, then the postexec part.
Transfer(t, cmd) ==
  IF ~CmdBit(cmd, 131072) \/ CmdRegno(cmd) \notin RegNos THEN t
  ELSE IF CmdBit(cmd, 65536) THEN WriteRegNo(t, CmdRegno(cmd), t.data)
  ELSE [t EXCEPT !.data = ReadRegNo(t, CmdRegno(cmd))]

PostExec(t, cmd) == IF CmdBit(cmd, 262144) THEN ExecProgbuf(t) ELSE t

\* A write of the command register.  The command is ignored while cmderr
\* is set, and fails with cmderr = 4 when the hart is not halted.
DmCommand(t, cmd) ==
  IF t.cmderr # 0 THEN t
  ELSE IF t.hart # "halted" THEN [t EXCEPT !.cmderr = 4]
  ELSE PostExec(Transfer(t, cmd), cmd)

(***************************************************************************)
(* The Debug Module driver (rfpc_debugger.rs).  d is the target t and      *)
(* whether the driver has panicked, after which nothing more happens.      *)
(***************************************************************************)
Drv(t) == [t |-> t, panic |-> FALSE]

\* The accesses of the Debug Module's registers a routine makes, and what
\* the hart does meanwhile, are noted in t.trace in the order they happen:
\* op names the event, num is the command or 0, val the 64-bit value moved
\* or << >>.
Ev(op, num, val) == [op |-> op, num |-> num, val |-> val]
Log(d, ev) == IF d.panic THEN d ELSE [d EXCEPT !.t.trace = Append(@, ev)]

\* abstract_cmd_busy_wait: TRUE when the poll sees abstractcs.BUSY clear;
\* FALSE when the deadline passes first, where the function panics.
abstract_cmd_busy_wait(t) == ~t.busy

\* The write of the command register.
WriteCommand(d, cmd) ==
  IF d.panic THEN d
  ELSE Log([d EXCEPT !.t = DmCommand(d.t, cmd)], Ev("command", cmd, << >>))

\* The call of abstract_cmd_busy_wait.
BusyWait(d) ==
  IF d.panic THEN d
  ELSE IF abstract_cmd_busy_wait(d.t) THEN Log(d, Ev("not busy", 0, << >>))
  ELSE [d EXCEPT !.panic = TRUE]

\* A write of the command register that is not followed by the busy-wait.
CommandNoWait(d, cmd) == WriteCommand(d, cmd)

\* A write of the command register followed by abstract_cmd_busy_wait.
Command(d, cmd) == BusyWait(WriteCommand(d, cmd))

\* The writes of data0 / data1 and of progbuf0.
SetData(d, value) ==
  IF d.panic THEN d ELSE Log([d EXCEPT !.t.data = value], Ev("write data", 0, value))
SetProgbuf(d, instr) ==
  IF d.panic THEN d
  ELSE Log([d EXCEPT !.t.progbuf0 = instr], Ev("write progbuf0", instr.csr, << >>))

\* data0 | data1 << 32, as the driver reads it back; ReadData is the read.
Data(d) == d.t.data
ReadData(d) == Log(d, Ev("read data", 0, d.t.data))

\* rfpc_dbg_read_reg: command 0x320000 | regno, busy-wait, read of data0
\* and data1; the value read is Data of the result.
rfpc_dbg_read_reg(d, reg_addr) ==
  ReadData(Command(d, 3276800 + (reg_addr % 65536)))

\* rfpc_dbg_write_reg: a GPR is written by one abstract command (0x330000 |
\* regno); a CSR goes through x11 (0x33100B) and csrrw in the program
\* buffer (0x360000).
rfpc_dbg_write_reg(d, reg_addr, value) ==
  IF (reg_addr \div 4096) % 16 = 1
  THEN Command(SetData(d, value), 3342336 + reg_addr)
  ELSE Command(SetProgbuf(Command(SetData(d, value), 3346443),
                          CsrwA1(reg_addr % 4096)),
               3538944)

\* The word loop of rfpc_dbg_read_memory: the address into data, ld through
\* a0 (0x37100A), a0 back into data (0x32100A).
RECURSIVE ReadWords(_, _, _, _, _)
ReadWords(d, address, word_idx, length, mem_words) ==
  IF word_idx >= length \/ d.panic THEN [d |-> d, mem_words |-> mem_words]
  ELSE With(ReadData(Command(Command(SetProgbuf(SetData(d, AddU64(address,
                                                                     8 * word_idx)),
                                                LdA0),
                                     3608586),
                             3280906)),
            LAMBDA d1 : ReadWords(d1, address, word_idx + 1, length,
                                  Append(mem_words, Data(d1))))

\* rfpc_dbg_read_memory: save x10, read length 64-bit words, restore x10.
rfpc_dbg_read_memory(d, address, length) ==
  With(rfpc_dbg_read_reg(d, GprAddr(10)),
       LAMBDA temp_a0 :
         With(ReadWords(temp_a0, address, 0, length, << >>),
              LAMBDA r : [d |-> rfpc_dbg_write_reg(r.d, GprAddr(10), Data(temp_a0)),
                          mem_words |-> r.mem_words]))

\* The word loop of rfpc_dbg_write_memory: the word into a1 (0x33100B), the
\* address into a0 and sd (0x37100A).
RECURSIVE WriteWords(_, _, _, _)
WriteWords(d, address, word_idx, words) ==
  IF word_idx >= Len(words) \/ d.panic THEN d
  ELSE WriteWords(
         Command(SetProgbuf(SetData(Command(SetData(d, words[word_idx + 1]), 3346443),
                                    AddU64(address, 8 * word_idx)),
                            SdA1),
                 3608586),
         address, word_idx + 1, words)

\* rfpc_dbg_write_memory: save x10 and x11, write the words, restore both.
rfpc_dbg_write_memory(d, address, words) ==
  With(rfpc_dbg_read_reg(d, GprAddr(10)),
       LAMBDA temp_a0 :
         With(rfpc_dbg_read_reg(temp_a0, GprAddr(11)),
              LAMBDA temp_a1 :
                rfpc_dbg_write_reg(
                  rfpc_dbg_write_reg(WriteWords(temp_a1, address, 0, words),
                                     GprAddr(10), Data(temp_a0)),
                  GprAddr(11), Data(temp_a1))))

(***************************************************************************)
(* The memory-engine adapter for cluster-target memory: 32-bit words.      *)
(***************************************************************************)
mem_read(ctm, address, word_count) ==
  [i \in 1..word_count |->
     LET a == ToInt(address) + 4 * (i - 1)
     IN  IF a \in DOMAIN ctm THEN ctm[a] ELSE << 0, 0, 0, 0 >>]

mem_write(ctm, address, words) ==
  [a \in DOMAIN ctm |->
     LET k == (a - ToInt(address)) \div 4
     IN  IF a >= ToInt(address) /\ k < Len(words) THEN words[k + 1] ELSE ctm[a]]

(***************************************************************************)
(* The RSP server's command handlers (rsp_server_stub.rs).  s is the       *)
(* RspServer: disable_ack, breakpoints, client_v_support,                  *)
(* client_kv_support, and the hardware behind exp_bar: t (the Debug        *)
(* Module and hart) and ctm.  A handler yields the server after the call,  *)
(* the reply, and whether the call panicked (which ends the process).      *)
(***************************************************************************)
Reply(s, resp) == [s |-> s, resp |-> resp, panic |-> FALSE]
Panic(s) == [s |-> s, resp |-> << >>, panic |-> TRUE]
\* The reply of a handler whose driver calls, ending in d, are over: none if
\* one of them panicked.
Done(s, d, resp) ==
  IF d.panic THEN Panic([s EXCEPT !.t = d.t]) ELSE Reply([s EXCEPT !.t = d.t], resp)

\* The calls of the memory routines a handler makes are noted in s.calls, in
\* order: the routine and the address it is given.
Call(s, fn, address) ==
  [s EXCEPT !.calls = Append(@, [fn |-> fn, address |-> address])]

TextOK == Str(<< "O", "K" >>)
TextS05 == Str(<< "S", "0", "5" >>)
TextDetach == Str(<< "d", "e", "t", "a", "c", "h" >>)

\* str::splitn(2, ","): the text before the first comma and, when there is
\* a comma, the text after it.
SplitAt(text, i) ==
  IF i = 0 THEN [first |-> text, has_second |-> FALSE, second |-> << >>]
  ELSE [first |-> Take(text, i - 1), has_second |-> TRUE, second |-> Drop(text, i)]
SplitComma(text) == SplitAt(text, Position(text, 44))

\* RspServer::cmd_not_supported
cmd_not_supported(s) == Reply(s, << >>)

\* The register numbers read_gprs walks through, in order: the numeric
\* ranges X0..=X31, Mstatus..=Mtvec, Mscratch..=Mip, Dcsr..=Dscratch1,
\* Mlmemprot..=Mafstatus, Mcycle, Minstret, Cycle..=Instret,
\* Mvendorid..=Mhartid.
RegRange(lo, hi) == [i \in 1..(hi - lo + 1) |-> lo + i - 1]

\* The walk with Mcycle and Minstret read as one more numeric range.
read_gprs_order_one_more_range ==
  RegRange(GprAddr(0), GprAddr(31))
    \o RegRange(csr_regs[1], csr_regs[6]) \o RegRange(csr_regs[7], csr_regs[11])
    \o RegRange(csr_regs[12], csr_regs[15]) \o RegRange(csr_regs[16], csr_regs[17])
    \o RegRange(csr_regs[18], csr_regs[19])
    \o RegRange(csr_regs[20], csr_regs[22]) \o RegRange(csr_regs[23], csr_regs[26])

read_gprs_order ==
  RegRange(GprAddr(0), GprAddr(31))
    \o RegRange(csr_regs[1], csr_regs[6]) \o RegRange(csr_regs[7], csr_regs[11])
    \o RegRange(csr_regs[12], csr_regs[15]) \o RegRange(csr_regs[16], csr_regs[17])
    \o << csr_regs[18], csr_regs[19] >>
    \o RegRange(csr_regs[20], csr_regs[22]) \o RegRange(csr_regs[23], csr_regs[26])

\* The loops of read_gprs over regs[lo..hi]: one register read and 16 hex
\* digits per register, in order; the range is walked by halves, the first
\* half before the second.
RECURSIVE ReadRegsHex(_, _, _, _)
ReadRegsHex(r, regs, lo, hi) ==
  IF lo > hi \/ r.d.panic THEN r
  ELSE IF lo = hi
  THEN With(rfpc_dbg_read_reg(r.d, regs[lo]),
            LAMBDA d1 : [d |-> d1, text |-> r.text \o Fmt016x(swap_bytes(Data(d1)))])
  ELSE ReadRegsHex(ReadRegsHex(r, regs, lo, (lo + hi) \div 2),
                   regs, ((lo + hi) \div 2) + 1, hi)

\* RspServer::read_gprs
read_gprs(s) ==
  With(ReadRegsHex([d |-> Drv(s.t), text |-> << >>], read_gprs_order,
                   1, Len(read_gprs_order)),
       LAMBDA r : Done(s, r.d, r.text))

\* The register number of a combined index: 0..31 a GPR, 32..57 a CSR,
\* -1 outside (where read_reg and write_reg panic).
RegOfNumber(n) ==
  IF n \in 0..31 THEN gpr_regs[n + 1]
  ELSE IF n \in 32..(32 + Len(csr_regs) - 1) THEN csr_regs[n - 32 + 1]
  ELSE -1
RegOfIndex(address) == RegOfNumber(ToInt(address))

\* read_reg once the register is known.
ReadRegAt(s, reg) ==
  IF reg = -1 THEN Panic(s)
  ELSE With(rfpc_dbg_read_reg(Drv(s.t), reg),
            LAMBDA d : Done(s, d, Fmt016x(swap_bytes(Data(d)))))

\* RspServer::read_reg
read_reg(s, packet) ==
  With(ParseU64(Drop(packet, 1)),
       LAMBDA address : IF ~address.ok THEN Panic(s)
                        ELSE ReadRegAt(s, RegOfIndex(address.val)))

\* The parsed value handed on as it is, without the byte swap.
write_reg_value_unswapped(parsed) == parsed

\* The value write_reg hands to the driver: the parsed hex, byte-swapped.
write_reg_value(parsed) == swap_bytes(parsed)

\* write_reg once index and value are parsed.
WriteRegAt(s, address, value) ==
  IF ~address.ok \/ ~value.ok THEN Panic(s)
  ELSE IF RegOfIndex(address.val) = -1 THEN Panic(s)
  ELSE Done(s, rfpc_dbg_write_reg(Drv(s.t), RegOfIndex(address.val),
                                  write_reg_value(value.val)),
            TextOK)

\* write_reg once the '=' is found at equals_index (0: there is none).
WriteRegSplit(s, packet, equals_index) ==
  IF equals_index = 0 THEN Panic(s)
  ELSE With(ParseU64(SubSeq(packet, 2, equals_index - 1)),
            LAMBDA address :
              With(ParseU64(Drop(packet, equals_index)),
                   LAMBDA value : WriteRegAt(s, address, value)))

\* RspServer::write_reg
write_reg(s, packet) == WriteRegSplit(s, packet, Position(packet, 61))

\* RspServer::set_core
set_core(s, packet) == Reply(s, TextOK)

\* The instruction set_breakpoint writes over a 64-bit word:
\* (orig & 0xFFFF_FFFF_0000_0000) | 0x0010_0073.
Ebreak32 == << 0, 16, 0, 115 >>
bp_instr(orig) == SubSeq(orig, 1, 4) \o Ebreak32

\* u32 as u64
ZeroExtend(w) == << 0, 0, 0, 0 >> \o w

\* HashMap::insert / HashMap::remove
MapInsert(m, k, v) == [x \in DOMAIN m \cup {k} |-> IF x = k THEN v ELSE m[x]]
MapRemove(m, k) == [x \in DOMAIN m \ {k} |-> m[x]]

\* set_breakpoint in cluster-target memory: the word is read through the
\* memory engine, kept, and replaced by ebreak.
SetBpCtm(s, address, riscv_instr) ==
  Reply([Call(s, "mem_write", MaskLow32(address))
           EXCEPT !.breakpoints = MapInsert(s.breakpoints, address,
                                            ZeroExtend(riscv_instr[1])),
                  !.ctm = mem_write(s.ctm, MaskLow32(address), << Ebreak32 >>)],
        TextOK)

\* set_breakpoint through the Debug Module, after the read r of the word.
SetBpDm(s, address, r) ==
  IF r.d.panic THEN Panic([s EXCEPT !.t = r.d.t])
  ELSE Done([Call(s, "rfpc_dbg_write_memory", MaskLow32(address))
               EXCEPT !.breakpoints =
                 MapInsert(s.breakpoints, address, r.mem_words[1])],
            rfpc_dbg_write_memory(r.d, MaskLow32(address),
                                  << bp_instr(r.mem_words[1]) >>),
            TextOK)

\* set_breakpoint once the address is parsed.
SetBpAt(s, address) ==
  IF IsCtm(address)
  THEN SetBpCtm(Call(s, "mem_read", MaskLow32(address)), address,
                mem_read(s.ctm, MaskLow32(address), 1))
  ELSE With(rfpc_dbg_read_memory(Drv(s.t), MaskLow32(address), 1),
            LAMBDA r : SetBpDm(Call(s, "rfpc_dbg_read_memory", MaskLow32(address)),
                               address, r))

\* RspServer::set_breakpoint
set_breakpoint(s, packet) ==
  IF Len(packet) < 3 THEN Panic(s)
  ELSE With(ParseU64(SplitComma(Drop(packet, 3)).first),
            LAMBDA address : IF ~address.ok THEN Panic(s)
                             ELSE SetBpAt(s, address.val))

\* A clear_breakpoint that drops the entry and writes nothing back.
ClearBpAtForget(s, address, riscv_instr) ==
  Reply([s EXCEPT !.breakpoints = MapRemove(s.breakpoints, address)], TextOK)

\* clear_breakpoint once the address is parsed and found in the map: the
\* entry is removed and the kept word written back.
ClearBpAt(s, address, riscv_instr) ==
  IF IsCtm(address)
  THEN Reply([Call(s, "mem_write", MaskLow32(address))
                EXCEPT !.breakpoints = MapRemove(s.breakpoints, address),
                       !.ctm = mem_write(s.ctm, MaskLow32(address),
                                         << SubSeq(riscv_instr, 5, 8) >>)],
             TextOK)
  ELSE Done([Call(s, "rfpc_dbg_write_memory", MaskLow32(address))
               EXCEPT !.breakpoints = MapRemove(s.breakpoints, address)],
            rfpc_dbg_write_memory(Drv(s.t), MaskLow32(address), << riscv_instr >>),
            TextOK)

\* RspServer::clear_breakpoint
clear_breakpoint(s, packet) ==
  IF Len(packet) < 3 THEN Panic(s)
  ELSE With(ParseU64(SplitComma(Drop(packet, 3)).first),
            LAMBDA address :
              IF ~address.ok THEN Panic(s)
              ELSE IF address.val \notin DOMAIN s.breakpoints THEN Panic(s)
              ELSE ClearBpAt(s, address.val, s.breakpoints[address.val]))

\* bytemuck::cast_slice from bytes to words of n bytes on a little-endian
\* host; the caller has checked that the length is a multiple of n.
CastWords(bytes, n) ==
  [k \in 1..(Len(bytes) \div n) |-> [i \in 1..n |-> bytes[n * k + 1 - i]]]

\* bytemuck::cast_slice from words to bytes.
CastBytes(words, n) ==
  [j \in 1..(n * Len(words)) |-> words[((j - 1) \div n) + 1][n - ((j - 1) % n)]]

Zeros(n) == [i \in 1..n |-> 0]

\* packet_data.resize(len + 8 - remainder, 0) when remainder = length % 8
\* is not 0.
PadData(packet_data, remainder) ==
  packet_data \o (IF remainder # 0 THEN Zeros(8 - remainder) ELSE << >>)

\* memory_write once address, length and the padded data are there.
MemWriteAt(s, address, length, packet_data) ==
  IF length = Zero64 THEN Reply(s, TextOK)
  ELSE IF IsCtm(address)
  THEN IF Len(packet_data) % 4 # 0 THEN Panic(s)
       ELSE Reply([Call(s, "mem_write", MaskLow32(address))
                     EXCEPT !.ctm = mem_write(s.ctm, MaskLow32(address),
                                              CastWords(packet_data, 4))],
                  TextOK)
  ELSE IF Len(packet_data) % 8 # 0 THEN Panic(s)
  ELSE Done(Call(s, "rfpc_dbg_write_memory", MaskLow32(address)),
            rfpc_dbg_write_memory(Drv(s.t), MaskLow32(address),
                                  CastWords(packet_data, 8)),
            TextOK)

\* memory_write once "addr,length" is split.
MemWriteInfo(s, buffer_info, data) ==
  IF ~buffer_info.has_second THEN Panic(s)
  ELSE With(ParseU64(buffer_info.first),
            LAMBDA address :
              With(ParseU64(buffer_info.second),
                   LAMBDA length :
                     IF ~address.ok \/ ~length.ok THEN Panic(s)
                     ELSE MemWriteAt(s, address.val, length.val,
                                     PadData(data, length.val[8] % 8))))

\* memory_write once the ':' is found at colon_index (0: there is none).
MemWriteSplit(s, packet, colon_index) ==
  IF colon_index = 0 THEN Panic(s)
  ELSE With(SplitComma(SubSeq(packet, 2, colon_index - 1)),
            LAMBDA buffer_info :
              MemWriteInfo(s, buffer_info, Drop(packet, colon_index)))

\* RspServer::memory_write (the handler of both M and X)
memory_write(s, packet) == MemWriteSplit(s, packet, Position(packet, 58))

RECURSIVE HexBytes(_)
HexBytes(bytes) ==
  IF bytes = << >> THEN << >> ELSE Fmt02x(Head(bytes)) \o HexBytes(Tail(bytes))

SwapWords(words) == [i \in 1..Len(words) |-> swap_bytes(words[i])]

\* A memory_read that rounds the length down to whole words.
MemReadAtRoundedDown(s, address, len) ==
  IF IsCtm(address)
  THEN Reply(Call(s, "mem_read", MaskLow32(address)),
             HexBytes(Take(CastBytes(SwapWords(mem_read(s.ctm, MaskLow32(address),
                                                        len \div 4)),
                                     4),
                           len)))
  ELSE With(rfpc_dbg_read_memory(Drv(s.t), MaskLow32(address), len \div 8),
            LAMBDA r : Done(Call(s, "rfpc_dbg_read_memory", MaskLow32(address)),
                            r.d, HexBytes(Take(CastBytes(r.mem_words, 8), len))))

\* memory_read once address and length are there; the modelled lengths
\* are below 2^23.
MemReadAt(s, address, len) ==
  IF IsCtm(address)
  THEN Reply(Call(s, "mem_read", MaskLow32(address)),
             HexBytes(Take(CastBytes(SwapWords(mem_read(s.ctm, MaskLow32(address),
                                                        (len + 3) \div 4)),
                                     4),
                           len)))
  ELSE With(rfpc_dbg_read_memory(Drv(s.t), MaskLow32(address), (len + 7) \div 8),
            LAMBDA r : Done(Call(s, "rfpc_dbg_read_memory", MaskLow32(address)),
                            r.d, HexBytes(Take(CastBytes(r.mem_words, 8), len))))

\* memory_read once "m<addr>,<length>" is split.
MemReadInfo(s, mem_info) ==
  IF ~mem_info.has_second THEN Panic(s)
  ELSE With(ParseU64(Drop(mem_info.first, 1)),
            LAMBDA address :
              With(ParseU64(mem_info.second),
                   LAMBDA length :
                     IF ~address.ok \/ ~length.ok THEN Panic(s)
                     ELSE MemReadAt(s, address.val, ToInt(length.val))))

\* RspServer::memory_read
memory_read(s, packet) == With(SplitComma(packet), LAMBDA mem_info : MemReadInfo(s, mem_info))

\* RspServer::load_offsets
load_offsets(s) ==
  Reply(s, Str(<< "T", "e", "x", "t", "=", "0", "0", "0", ";", "D", "a", "t", "a",
                  "=", "0", "0", "0", ";", "B", "s", "s", "=", "0", "0", "0" >>))

\* str::split(';')
RECURSIVE SplitSemi(_)
SplitSemiAt(text, i) ==
  IF i = 0 THEN << text >> ELSE << Take(text, i - 1) >> \o SplitSemi(Drop(text, i))
SplitSemi(text) == SplitSemiAt(text, Position(text, 59))

\* One round of the loop of supported_features: a feature with '=' at eq
\* goes into client_kv_support, any other into client_v_support.
CaptureFeature(s, feat, eq) ==
  IF eq # 0
  THEN [s EXCEPT !.client_kv_support =
          MapInsert(s.client_kv_support, Take(feat, eq - 1), Drop(feat, eq))]
  ELSE [s EXCEPT !.client_v_support = Append(@, feat)]

\* The loop of supported_features over the client's features.
RECURSIVE CaptureFeatures(_, _)
CaptureFeatures(s, feats) ==
  IF feats = << >> THEN s
  ELSE CaptureFeatures(CaptureFeature(s, Head(feats), Position(Head(feats), 61)),
                       Tail(feats))

\* server_kv_support and server_v_support joined with ';'
ServerFeatures ==
  Str(<< "P", "a", "c", "k", "e", "t", "S", "i", "z", "e", "=", "1", "0", "0", "0",
         "0", "0", ";", "q", "M", "e", "m", "o", "r", "y", "R", "e", "a", "d", "+",
         ";", "s", "w", "b", "r", "e", "a", "k", "+" >>)

\* RspServer::supported_features
supported_features(s, packet) ==
  IF Position(packet, 58) = 0 THEN Panic(s)
  ELSE Reply(CaptureFeatures(s, SplitSemi(Drop(packet, Position(packet, 58)))),
             ServerFeatures)

\* A toggle_ack that flips the mode instead of setting it.
toggle_ack_flip(s) == Reply([s EXCEPT !.disable_ack = ~s.disable_ack], TextOK)

\* RspServer::toggle_ack
toggle_ack(s) == Reply([s EXCEPT !.disable_ack = TRUE], TextOK)

(***************************************************************************)
(* Step and continue.  What the hart does after the resume request is the  *)
(* environment's choice hw: "step" (it halts after one instruction, which  *)
(* needs dcsr.STEP), "ebreak" (it halts in an ebreak, which needs          *)
(* dcsr.EBREAKM or EBREAKU), "hang" (ALLHALTED is not seen before the      *)
(* deadline, and the poll panics) or "late" (the hart has not yet left the *)
(* halted state when dmstatus is polled first, and resumes after the       *)
(* routine is through).                                                    *)
(***************************************************************************)
HartOutcomes == {"step", "ebreak", "hang", "late"}

Dcsr == csr_regs[12]
Dpc == csr_regs[13]

BitSet(byte, bit) == (byte \div bit) % 2 = 1
OrBit(byte, bit) == IF BitSet(byte, bit) THEN byte ELSE byte + bit
ClearBit(byte, bit) == IF BitSet(byte, bit) THEN byte - bit ELSE byte

\* (dcsr as u32 & RISCV_DBG_DCSR_CAUSE) >> 6
DcsrCause(v) == 4 * (v[7] % 2) + (v[8] \div 64)

\* The program the hart runs is a loop over the modelled memory: the next
\* pc is 4 above, or the start of the memory from anywhere else.
NextPc(pc) ==
  IF ToInt(pc) \in MemAddrs /\ (ToInt(pc) + 4) \in MemAddrs THEN AddU64(pc, 4)
  ELSE FromInt(8192)

\* dcsr.cause after the resume request, 0 when the hart does not halt.
HaltCause(dcsr, hw) ==
  IF hw = "step" /\ BitSet(dcsr[8], 4) THEN 4
  ELSE IF hw = "ebreak" /\ (BitSet(dcsr[7], 128) \/ BitSet(dcsr[7], 16)) THEN 1
  ELSE 0

\* dcsr with the cause field (bits 8:6) set.
WithCause(dcsr, cause) ==
  [dcsr EXCEPT ![7] = 2 * (dcsr[7] \div 2) + (cause \div 4),
               ![8] = (dcsr[8] % 64) + 64 * (cause % 4)]

\* The hart after the resume request with dcsr.cause to be cause: halted
\* again, or still running when the poll gives up and panics.
Resumes(d) ==
  IF d.t.hart # "halted" THEN d
  ELSE [d EXCEPT !.t.hart = "running",
                 !.t.trace = Append(@, Ev("hart resumes", 0, << >>))]

HartHalts(d, cause) ==
  IF d.panic THEN d
  ELSE IF cause = 0 THEN [Resumes(d) EXCEPT !.panic = TRUE]
  ELSE Log(Log([Resumes(d) EXCEPT !.t.hart = "halted",
                                  !.t.reg[Dcsr] = WithCause(d.t.reg[Dcsr], cause),
                                  !.t.reg[Dpc] = NextPc(d.t.reg[Dpc])],
               Ev("hart halts", cause, << >>)),
           Ev("allhalted", 0, << >>))

\* The resume request and the poll for ALLHALTED.  The first poll can meet
\* the hart before it has left the halted state.
HartRun(d, hw) ==
  IF d.panic THEN d
  ELSE IF hw = "late" /\ d.t.hart = "halted"
  THEN Log(Log(d, Ev("resumereq", 0, << >>)), Ev("allhalted", 0, << >>))
  ELSE HartHalts(Log(d, Ev("resumereq", 0, << >>)), HaltCause(d.t.reg[Dcsr], hw))

\* The hart that was late resumes in the end.
LateResume(d, hw, hart) ==
  IF /\ hw = "late" /\ hart = "halted"
     /\ \E i \in DOMAIN d.t.trace : d.t.trace[i].op = "resumereq"
  THEN Resumes(d)
  ELSE d

\* dcsr_reg &= !MASK as u64: the mask is inverted as a u32 and then widened,
\* so the upper 32 bits are cleared as well.
AndNotMask(v, byte, bits) ==
  [i \in 1..8 |-> IF i <= 4 THEN 0
                  ELSE IF i = byte THEN bits
                  ELSE v[i]]

\* The check of dcsr.cause after the halt: a panic unless it is cause.
CheckCause(d, cause) ==
  IF d.panic \/ DcsrCause(Data(d)) = cause THEN d ELSE [d EXCEPT !.panic = TRUE]

\* rfpc_dbg_single_step once dcsr is read: set STEP, resume, read dcsr.
StepRun(d, hw) ==
  rfpc_dbg_read_reg(
    HartRun(rfpc_dbg_write_reg(d, Dcsr, [Data(d) EXCEPT ![8] = OrBit(@, 4)]), hw),
    Dcsr)

StepEndKeepsStep(d) == rfpc_dbg_write_reg(d, Dcsr, Data(d))

\* rfpc_dbg_single_step once the hart has halted: cause 4, clear STEP.
StepEnd(d) ==
  rfpc_dbg_write_reg(d, Dcsr, AndNotMask(Data(d), 8, ClearBit(Data(d)[8], 4)))

\* rfpc_dbg_single_step
rfpc_dbg_single_step(d, hw) ==
  LateResume(With(rfpc_dbg_read_reg(d, Dcsr),
                  LAMBDA r1 : With(CheckCause(StepRun(r1, hw), 4),
                                   LAMBDA r2 : StepEnd(r2))),
             hw, d.t.hart)

ContRunOnlyEbreakm(d, hw) ==
  rfpc_dbg_read_reg(
    HartRun(rfpc_dbg_write_reg(d, Dcsr, [Data(d) EXCEPT ![7] = OrBit(@, 128)]), hw),
    Dcsr)

\* rfpc_dbg_continue once dcsr is read: set EBREAKM and EBREAKU, resume,
\* read dcsr.
ContRun(d, hw) ==
  rfpc_dbg_read_reg(
    HartRun(rfpc_dbg_write_reg(d, Dcsr,
                               [Data(d) EXCEPT ![7] = OrBit(OrBit(@, 128), 16)]),
            hw),
    Dcsr)

\* rfpc_dbg_continue once the hart has halted: cause 1, clear the bits.
ContEnd(d) ==
  rfpc_dbg_write_reg(d, Dcsr,
                     AndNotMask(Data(d), 7, ClearBit(ClearBit(Data(d)[7], 128), 16)))

\* rfpc_dbg_continue
rfpc_dbg_continue(d, hw) ==
  LateResume(With(rfpc_dbg_read_reg(d, Dcsr),
                  LAMBDA r1 : With(CheckCause(ContRun(r1, hw), 1),
                                   LAMBDA r2 : ContEnd(r2))),
             hw, d.t.hart)

\* The optional "set dpc" of s<addr> and c<addr>.
SetDpcTo(s, address) ==
  IF ~address.ok THEN [s |-> s, d |-> [t |-> s.t, panic |-> TRUE]]
  ELSE [s |-> s, d |-> rfpc_dbg_write_reg(Drv(s.t), Dpc, address.val)]

SetDpc(s, packet) ==
  IF Len(packet) <= 1 THEN [s |-> s, d |-> Drv(s.t)]
  ELSE With(ParseU64(Drop(packet, 1)), LAMBDA address : SetDpcTo(s, address))

\* RspServer::single_step
single_step(s, packet, hw) ==
  With(SetDpc(s, packet), LAMBDA r : Done(s, rfpc_dbg_single_step(r.d, hw), TextS05))

\* RspServer::single_step_sig
single_step_sig(s, hw) == Done(s, rfpc_dbg_single_step(Drv(s.t), hw), TextS05)

\* RspServer::cont
cont(s, packet, hw) ==
  With(SetDpc(s, packet), LAMBDA r : Done(s, rfpc_dbg_continue(r.d, hw), TextS05))

\* RspServer::cont_with_sig
cont_with_sig(s, packet, hw) == Done(s, rfpc_dbg_continue(Drv(s.t), hw), TextS05)

(***************************************************************************)
(* Dispatch                                                                *)
(***************************************************************************)
Ascii(text) == [type |-> "Ascii", arg |-> text]
NoArg(fn) == [type |-> "NoArg", arg |-> fn]
WithArg(fn) == [type |-> "WithArg", arg |-> fn]
Silent == [type |-> "None", arg |-> ""]

\* The inserts of RspServer::new into cmd_resp_map, in program order.
cmd_resp_inserts ==
  << << Str(<< "!" >>), NoArg("cmd_not_supported") >>,
     << Str(<< "?" >>), Ascii(Str(<< "S" >>) \o Fmt02x(18)) >>,
     << Str(<< "c" >>), Silent >>,
     << Str(<< "D" >>), Silent >>,
     << Str(<< "Q", "S", "t", "a", "r", "t", "N", "o", "A", "c", "k", "M", "o", "d", "e" >>),
        NoArg("toggle_ack") >>,
     << Str(<< "q", "C" >>), Ascii(Str(<< "-", "1" >>)) >>,
     << Str(<< "q", "O", "f", "f", "s", "e", "t", "s" >>), NoArg("load_offsets") >>,
     << Str(<< "q", "S", "u", "p", "p", "o", "r", "t", "e", "d" >>),
        WithArg("supported_features") >>,
     << Str(<< "q", "A", "t", "t", "a", "c", "h", "e", "d" >>), Ascii(Str(<< "1" >>)) >>,
     << Str(<< "H" >>), Ascii(Str(<< "l" >>)) >>,
     << Str(<< "g" >>), NoArg("read_gprs") >>,
     << Str(<< "p" >>), WithArg("read_reg") >>,
     << Str(<< "P" >>), WithArg("write_reg") >>,
     << Str(<< "m" >>), WithArg("memory_read") >>,
     << Str(<< "M" >>), WithArg("memory_write") >>,
     << Str(<< "H" >>), WithArg("set_core") >>,
     << Str(<< "s" >>), WithArg("single_step") >>,
     << Str(<< "S" >>), NoArg("single_step_sig") >>,
     << Str(<< "c" >>), WithArg("cont") >>,
     << Str(<< "D" >>), Ascii(TextDetach) >>,
     << Str(<< "Z", "0" >>), WithArg("set_breakpoint") >>,
     << Str(<< "z", "0" >>), WithArg("clear_breakpoint") >>,
     << << 3 >>, Silent >>,
     << Str(<< "k" >>), Silent >>,
     << Str(<< "C" >>), WithArg("cont_with_sig") >>,
     << Str(<< "v", "M", "u", "s", "t", "R", "e", "p", "l", "y", "E", "m", "p", "t", "y" >>),
        NoArg("cmd_not_supported") >>,
     << Str(<< "X" >>), WithArg("memory_write") >> >>

\* Inserts that keep the first value of a key.
RECURSIVE InsertAllKeepFirst(_, _)
InsertAllKeepFirst(m, inserts) ==
  IF inserts = << >> THEN m
  ELSE IF Head(inserts)[1] \in DOMAIN m THEN InsertAllKeepFirst(m, Tail(inserts))
  ELSE InsertAllKeepFirst(MapInsert(m, Head(inserts)[1], Head(inserts)[2]),
                          Tail(inserts))

RECURSIVE InsertAll(_, _)
InsertAll(m, inserts) ==
  IF inserts = << >> THEN m
  ELSE InsertAll(MapInsert(m, Head(inserts)[1], Head(inserts)[2]), Tail(inserts))

\* cmd_resp_map as RspServer::new leaves it.
cmd_resp_map == InsertAll(<< >>, cmd_resp_inserts)

\* The command of a payload: the bytes before the first ':'.
rsp_command(packet) ==
  IF Position(packet, 58) = 0 THEN packet ELSE Take(packet, Position(packet, 58) - 1)

\* The keys handle_packet can select for a payload: the command itself when
\* it is a key, otherwise any key that is a prefix of the command (the first
\* one the HashMap iteration meets, which can be any of them).
Candidates(packet) ==
  IF rsp_command(packet) \in DOMAIN cmd_resp_map THEN {rsp_command(packet)}
  ELSE {key \in DOMAIN cmd_resp_map : StartsWith(rsp_command(packet), key)}

NoKey == << 0 >>

\* The keys the iteration may end with: a candidate, or NoKey when there is
\* none.
KeyChoices(packet) ==
  IF Candidates(packet) = {} THEN {NoKey} ELSE Candidates(packet)

Some(h) == [s |-> h.s, kind |-> IF h.panic THEN "panic" ELSE "Some", resp |-> h.resp]

CallNoArg(fn, s, hw) ==
  CASE fn = "cmd_not_supported" -> cmd_not_supported(s)
    [] fn = "toggle_ack" -> toggle_ack(s)
    [] fn = "load_offsets" -> load_offsets(s)
    [] fn = "read_gprs" -> read_gprs(s)
    [] fn = "single_step_sig" -> single_step_sig(s, hw)

CallWithArg(fn, s, packet, hw) ==
  CASE fn = "supported_features" -> supported_features(s, packet)
    [] fn = "read_reg" -> read_reg(s, packet)
    [] fn = "write_reg" -> write_reg(s, packet)
    [] fn = "memory_read" -> memory_read(s, packet)
    [] fn = "memory_write" -> memory_write(s, packet)
    [] fn = "set_core" -> set_core(s, packet)
    [] fn = "single_step" -> single_step(s, packet, hw)
    [] fn = "cont" -> cont(s, packet, hw)
    [] fn = "set_breakpoint" -> set_breakpoint(s, packet)
    [] fn = "clear_breakpoint" -> clear_breakpoint(s, packet)
    [] fn = "cont_with_sig" -> cont_with_sig(s, packet, hw)

\* A handle_packet that answers a None entry as an unsupported command.
RespondToNone(s, packet, response, hw) ==
  CASE response.type = "Ascii" -> Some(Reply(s, response.arg))
    [] response.type = "NoArg" -> Some(CallNoArg(response.arg, s, hw))
    [] response.type = "WithArg" -> Some(CallWithArg(response.arg, s, packet, hw))
    [] response.type = "None" -> Some(cmd_not_supported(s))

\* RspServer::handle_packet, for the key the lookup ended with: kind is
\* "Some" (a reply), "None" (silent) or "panic".
Respond(s, packet, response, hw) ==
  CASE response.type = "Ascii" -> Some(Reply(s, response.arg))
    [] response.type = "NoArg" -> Some(CallNoArg(response.arg, s, hw))
    [] response.type = "WithArg" -> Some(CallWithArg(response.arg, s, packet, hw))
    [] response.type = "None" -> [s |-> s, kind |-> "None", resp |-> << >>]

handle_packet(s, packet, key, hw) ==
  IF key = NoKey THEN Some(cmd_not_supported(s))
  ELSE Respond(s, packet, cmd_resp_map[key], hw)

\* A parse_rsp_packet that does not compare the checksums.
parse_rsp_packet_unchecked(disable_ack, frame) ==
  [ok |-> TRUE, buffer |-> Unescape(frame.body, FALSE),
   writes |-> IF ~disable_ack THEN << << 43 >> >> ELSE << >>]

\* RspServer::parse_rsp_packet on a completely received frame: the raw body
\* between '$' and '#' and the two trailer bytes.  ok is the Ok / Err of the
\* result, writes what the call wrote to the stream.
parse_rsp_packet(disable_ack, frame) ==
      IF calculate_rsp_checksum(frame.body) = received_checksum(frame.trailer)
      THEN [ok |-> TRUE, buffer |-> Unescape(frame.body, FALSE),
            writes |-> IF ~disable_ack THEN << << 43 >> >> ELSE << >>]
      ELSE [ok |-> FALSE, buffer |-> << >>, writes |-> << >>]

\* An Err arm that writes nothing.
ErrWritesNothing(disable_ack) == << >>

\* What the Err arm of run writes to the stream.
ErrWrites(disable_ack) == IF ~disable_ack THEN << << 45 >> >> ELSE << >>

(***************************************************************************)
(* The server process: RspServer::run                                      *)
(***************************************************************************)
VARIABLES
  phase,              \* where run is: "accepting", "connected" (in the packet
                      \* loop, reading), "stopped" (run returned) or
                      \* "panicked" (the process died in a panic)
  running,            \* the shared AtomicBool
  stream,             \* the client socket: "none", "open", "eof" or "error"
  disable_ack,        \* RspServer.disable_ack
  breakpoints,        \* RspServer.breakpoints
  client_v_support,   \* RspServer.client_v_support
  client_kv_support,  \* RspServer.client_kv_support
  target,             \* the Debug Module and hart behind exp_bar
  ctm,                \* cluster-target memory behind exp_bar
  sent,               \* what the last step wrote to the stream, write by write
  last                \* what the last step was: for a loop iteration, the
                      \* frame it received and what it did with it

vars == << phase, running, stream, disable_ack, breakpoints, client_v_support,
           client_kv_support, target, ctm, sent, last >>

Srv == [disable_ack |-> disable_ack, breakpoints |-> breakpoints,
        client_v_support |-> client_v_support,
        client_kv_support |-> client_kv_support, t |-> target, ctm |-> ctm,
        calls |-> << >>]

NoPre == [mem |-> << >>, ctm |-> << >>, breakpoints |-> << >>]
NoFrame == << 0 >>
Event(kind) ==
  [kind |-> kind, body |-> << >>, trailer |-> << >>, accepted |-> FALSE,
   key |-> NoKey, outcome |-> "none", resp |-> << >>, pre |-> NoPre,
   after |-> NoFrame, hw |-> "none", calls |-> << >>, args |-> << >>,
   dm |-> << >>]

\* An iteration that sets a breakpoint remembers the memory and the
\* breakpoints it started from.
KeySetBp == Str(<< "Z", "0" >>)
PreOf(s, key) ==
  IF key = KeySetBp
  THEN [mem |-> s.t.mem, ctm |-> s.ctm, breakpoints |-> s.breakpoints]
  ELSE NoPre

\* An iteration that clears a breakpoint or reads a register remembers the
\* body of the packet that was answered just before it, if there is one.
KeyClearBp == Str(<< "z", "0" >>)
KeyReadReg == Str(<< "p" >>)
AfterOf(key, before) ==
  IF key \in {KeyClearBp, KeyReadReg} /\ before.kind = "packet"
     /\ before.outcome = "reply"
  THEN before.body
  ELSE NoFrame

\* The target before the session, with the hart halted or running.
InitTarget(h) ==
  [reg |-> [r \in RegNos |-> InitReg(r)],
   mem |-> [a \in MemAddrs |-> InitMem(a)],
   data |-> Zero64, progbuf0 |-> [op |-> "none", csr |-> 0],
   hart |-> h, cmderr |-> 0, busy |-> FALSE, trace |-> << >>]

Init ==
  /\ phase = "accepting"
  /\ running = TRUE
  /\ stream = "none"
  /\ disable_ack = FALSE
  /\ breakpoints = << >>
  /\ client_v_support = << >>
  /\ client_kv_support = << >>
  /\ \E h \in {"halted", "running"} : target = InitTarget(h)
  /\ ctm = [a \in CtmAddrs |-> InitCtm(a)]
  /\ sent = << >>
  /\ last = Event("none")

\* listener.accept() returns a connection.
Accept ==
  /\ phase = "accepting" /\ running
  /\ phase' = "connected"
  /\ stream' = "open"
  /\ sent' = << >>
  /\ last' = Event("accept")
  /\ UNCHANGED << running, disable_ack, breakpoints, client_v_support,
                  client_kv_support, target, ctm >>

\* listener.accept() fails with an error other than WouldBlock: break.
AcceptError ==
  /\ phase = "accepting" /\ running
  /\ phase' = "stopped"
  /\ sent' = << >>
  /\ last' = Event("accept error")
  /\ UNCHANGED << running, stream, disable_ack, breakpoints, client_v_support,
                  client_kv_support, target, ctm >>

\* The outer loop finds running false.
Shutdown ==
  /\ phase = "accepting" /\ ~running
  /\ phase' = "stopped"
  /\ sent' = << >>
  /\ last' = Event("shutdown")
  /\ UNCHANGED << running, stream, disable_ack, breakpoints, client_v_support,
                  client_kv_support, target, ctm >>

\* The ctrl-c handler of nfp_rsp.rs.
CtrlC ==
  /\ phase \in {"accepting", "connected"} /\ running
  /\ running' = FALSE
  /\ sent' = << >>
  /\ last' = Event("ctrl-c")
  /\ UNCHANGED << phase, stream, disable_ack, breakpoints, client_v_support,
                  client_kv_support, target, ctm >>

\* The client closes the connection, or the socket fails.
ClientGone ==
  /\ phase = "connected" /\ stream = "open"
  /\ stream' \in {"eof", "error"}
  /\ sent' = << >>
  /\ last' = Event("client gone")
  /\ UNCHANGED << phase, running, disable_ack, breakpoints, client_v_support,
                  client_kv_support, target, ctm >>

\* What the loop condition does after an iteration that neither panicked
\* nor detached.
AfterIteration == IF running THEN "connected" ELSE "stopped"

\* One iteration of the packet loop on a stream that has ended: every read
\* returns 0 (or the error), read_exact fails, and the Err arm writes '-'
\* with unwrap(); write_ok is whether that write succeeds.
RecvEnd ==
  /\ phase = "connected" /\ stream \in {"eof", "error"}
  /\ \E write_ok \in BOOLEAN :
       /\ disable_ack => write_ok
       /\ phase' = IF write_ok THEN AfterIteration ELSE "panicked"
       /\ sent' = IF write_ok THEN ErrWrites(disable_ack) ELSE << >>
  /\ last' = [Event(stream) EXCEPT !.outcome = "error"]
  /\ UNCHANGED << running, stream, disable_ack, breakpoints, client_v_support,
                  client_kv_support, target, ctm >>

StepKeys == {Str(<< "s" >>), Str(<< "S" >>), Str(<< "c" >>), Str(<< "C" >>)}

\* The body of the packet loop of run on a completely received frame:
\* parse_rsp_packet, then handle_packet and the reply, or the Err arm.  The
\* result is the server after the iteration, what the iteration wrote to
\* the stream, and how it ended.
\* An Ok arm that sends "detach" as any other reply.
OutcomeRepliesDetach(h) ==
  IF h.kind = "panic" THEN "panic"
  ELSE IF h.kind = "None" THEN "silent"
  ELSE "reply"

Outcome(h) ==
  IF h.kind = "panic" THEN "panic"
  ELSE IF h.kind = "None" THEN "silent"
  ELSE IF h.resp = TextDetach THEN "detach"
  ELSE "reply"

\* The Err arm: the packet is dropped, '-' is written while acking.
Dropped(s) ==
  [s |-> s, accepted |-> FALSE, outcome |-> "dropped", resp |-> << >>,
   writes |-> ErrWrites(s.disable_ack)]

\* An Ok arm whose reply reaches the stream before what parse_rsp_packet
\* wrote.
HandledReplyFirst(p, h, outcome) ==
  [s |-> h.s, accepted |-> TRUE, outcome |-> outcome,
   resp |-> IF outcome = "reply" THEN h.resp ELSE << >>,
   writes |-> IF outcome = "reply" THEN << format_rsp_packet(h.resp) >> \o p.writes
              ELSE IF outcome = "detach" THEN << format_rsp_packet(TextOK) >> \o p.writes
              ELSE p.writes]

\* The Ok arm, after handle_packet yielded h.
Handled(p, h, outcome) ==
  [s |-> h.s, accepted |-> TRUE, outcome |-> outcome,
   resp |-> IF outcome = "reply" THEN h.resp ELSE << >>,
   writes |-> IF outcome = "reply" THEN p.writes \o << format_rsp_packet(h.resp) >>
              ELSE IF outcome = "detach" THEN p.writes \o << format_rsp_packet(TextOK) >>
              ELSE p.writes]

LoopBody(s, frame, key, hw) ==
  With(parse_rsp_packet(s.disable_ack, frame),
       LAMBDA p :
         IF ~p.ok THEN Dropped(s)
         ELSE With(handle_packet(s, p.buffer, key, hw),
                   LAMBDA h : Handled(p, h, Outcome(h))))

\* One iteration of the packet loop.
Iterate(frame, key, hw) ==
  \E r \in {LoopBody(Srv, frame, key, hw)} :
    /\ phase = "connected" /\ stream = "open"
    /\ phase' = IF r.outcome = "panic" THEN "panicked"
                ELSE IF r.outcome = "detach" THEN "stopped"
                ELSE AfterIteration
    /\ running' = IF r.outcome = "detach" THEN FALSE ELSE running
    /\ stream' = IF phase' = "connected" THEN stream ELSE "none"
    /\ disable_ack' = r.s.disable_ack
    /\ breakpoints' = r.s.breakpoints
    /\ client_v_support' = r.s.client_v_support
    /\ client_kv_support' = r.s.client_kv_support
    /\ target' = [r.s.t EXCEPT !.trace = << >>]
    /\ ctm' = r.s.ctm
    /\ sent' = r.writes
    /\ last' = [kind |-> "packet", body |-> frame.body, trailer |-> frame.trailer,
                accepted |-> r.accepted,
                key |-> IF r.accepted THEN key ELSE NoKey,
                outcome |-> r.outcome, resp |-> r.resp,
                pre |-> IF r.accepted THEN PreOf(Srv, key) ELSE NoPre,
                after |-> IF r.accepted THEN AfterOf(key, last) ELSE NoFrame,
                hw |-> IF r.accepted /\ key \in StepKeys THEN hw ELSE "none",
                calls |-> r.s.calls, args |-> << >>, dm |-> r.s.t.trace]

\* The iteration for a frame, over the keys the HashMap iteration can end
\* with and over what the hart does when the command resumes it.
Serve(frame) ==
  \E p \in {parse_rsp_packet(disable_ack, frame)} :
    \E key \in (IF p.ok THEN KeyChoices(p.buffer) ELSE {NoKey}) :
      \E hw \in (IF key \in StepKeys THEN HartOutcomes ELSE {"step"}) :
        Iterate(frame, key, hw)

(***************************************************************************)
(* The client: the frames it sends                                         *)
(***************************************************************************)
\* A frame with the checksum the protocol asks for, and with other trailers.
Good(body) == [body |-> body, trailer |-> Fmt02x(calculate_rsp_checksum(body))]
Off(body) ==
  [body |-> body, trailer |-> Fmt02x((calculate_rsp_checksum(body) + 1) % 256)]
WithTrailer(body, trailer) == [body |-> body, trailer |-> trailer]

\* The escaping a client applies to binary data: '#', '$', '}' and '*'.
RECURSIVE Escape(_)
Escape(data) ==
  IF data = << >> THEN << >>
  ELSE IF Head(data) \in {35, 36, 125, 42}
  THEN << 125, (Head(data) + 32 - 64 * ((Head(data) \div 32) % 2)) >> \o Escape(Tail(data))
  ELSE << Head(data) >> \o Escape(Tail(data))

\* Addresses as the client writes them: two words of DM-reachable memory,
\* an address that differs from the first only above bit 31, and CTM.
AddrDm == Str(<< "2", "0", "0", "0" >>)
AddrDmNext == Str(<< "2", "0", "0", "8" >>)
AddrDmAlias == Str(<< "1", "0", "0", "0", "0", "2", "0", "0", "0" >>)
AddrCtm == Str(<< "1", "0", "0", "0", "0", "0", "0", "0", "0", "1", "0", "0", "0" >>)

\* Register values as the 16 hex characters on the wire, one of them with
\* upper case digits.
WireValues ==
  { Fmt016x(<< 136, 119, 102, 85, 68, 51, 34, 17 >>),
    Fmt016x(<< 1, 0, 0, 0, 0, 0, 0, 128 >>),
    Str(<< "0", "0", "0", "0", "0", "0", "0", "0", "D", "E", "A", "D", "B", "E",
           "E", "F" >>) }

QueryBodies ==
  { Str(<< "?" >>), Str(<< "q", "A", "t", "t", "a", "c", "h", "e", "d" >>),
    Str(<< "q", "C" >>), Str(<< "q", "O", "f", "f", "s", "e", "t", "s" >>),
    Str(<< "H", "g", "0" >>), Str(<< "!" >>),
    Str(<< "v", "M", "u", "s", "t", "R", "e", "p", "l", "y", "E", "m", "p", "t", "y" >>),
    Str(<< "q", "C", "1" >>) }

NoAckBody ==
  Str(<< "Q", "S", "t", "a", "r", "t", "N", "o", "A", "c", "k", "M", "o", "d", "e" >>)

TextSupported == Str(<< "q", "S", "u", "p", "p", "o", "r", "t", "e", "d" >>)
SupportedBodies ==
  { TextSupported \o Str(<< ":", "s", "w", "b", "r", "e", "a", "k", "+" >>),
    TextSupported \o Str(<< ":", "x", "m", "l", "R", "e", "g", "i", "s", "t", "e", "r",
                            "s", "=", "r", "i", "s", "c", "v" >>),
    TextSupported }

DetachBody == Str(<< "D" >>)
SilentBodies == { Str(<< "k" >>), << 3 >> }
UnknownBodies == { << >>, Str(<< "q", "X", "f", "e", "r" >>), << 125, 3 >> }

ReadRegsBody == Str(<< "g" >>)
ReadRegBodies ==
  { Str(<< "p", "1" >>), Str(<< "p", "1", "f" >>),
    Str(<< "p", "2", "6" >>), Str(<< "p", "3", "a" >>), Str(<< "p" >>) }
WriteRegBodies ==
  { Str(idx) \o Str(<< "=" >>) \o v :
      idx \in { << "P", "1" >>, << "P", "1", "f" >> },
      v \in WireValues }
    \cup { Str(<< "P", "0", "=" >>) \o Fmt016x(<< 1, 0, 0, 0, 0, 0, 0, 128 >>),
           Str(<< "P", "2", "6", "=" >>) \o Fmt016x(<< 1, 0, 0, 0, 0, 0, 0, 128 >>),
           Str(<< "P", "1" >>), Str(<< "P", "3", "a", "=", "0" >>) }

MemReadBodies ==
  { Str(<< "m" >>) \o AddrDm \o Str(<< ",", "8" >>),
    Str(<< "m" >>) \o AddrDmNext \o Str(<< ",", "4" >>),
    Str(<< "m" >>) \o AddrCtm \o Str(<< ",", "4" >>),
    Str(<< "m" >>) \o AddrDm }

\* Reads of other lengths: none, part of a word, a word and a part, two
\* words; the cluster-target address written with its leading zeros.
AddrCtmPadded == Str(<< "0", "0", "0" >>) \o AddrCtm
MemReadLenBodies ==
  { Str(<< "m" >>) \o AddrDm \o Str(<< ",", "0" >>),
    Str(<< "m" >>) \o AddrDm \o Str(<< ",", "3" >>),
    Str(<< "m" >>) \o AddrDm \o Str(<< ",", "9" >>),
    Str(<< "m" >>) \o AddrDm \o Str(<< ",", "1", "0" >>),
    Str(<< "m" >>) \o AddrCtmPadded \o Str(<< ",", "4" >>),
    Str(<< "m" >>) \o AddrCtm \o Str(<< ",", "3" >>),
    Str(<< "m" >>) \o AddrCtm \o Str(<< ",", "6" >>) }

\* X with binary data, and M with hex text.
MemWriteBodies ==
  { Str(<< "X" >>) \o AddrDm \o Str(<< ",", "4", ":" >>) \o << 1, 2, 3, 4 >>,
    Str(<< "X" >>) \o AddrCtm \o Str(<< ",", "4", ":" >>) \o << 5, 6, 7, 8 >>,
    Str(<< "M" >>) \o AddrDm \o Str(<< ",", "4", ":" >>) \o HexBytes(<< 1, 2, 3, 4 >>) }

\* M with the hex text of two words' worth of bytes.
MemWriteHexBodies ==
  { Str(<< "M" >>) \o AddrDm \o Str(<< ",", "8", ":" >>)
      \o HexBytes(<< 1, 2, 3, 4, 5, 6, 7, 8 >>) }

\* X with fewer bytes than a word at the second word, and with none.
MemWriteShortBodies ==
  { Str(<< "X" >>) \o AddrDmNext \o Str(<< ",", "4", ":" >>) \o << 9, 9, 9, 9 >>,
    Str(<< "X" >>) \o AddrDmNext \o Str(<< ",", "3", ":" >>) \o << 7, 7, 7 >>,
    Str(<< "X" >>) \o AddrDm \o Str(<< ",", "0", ":" >>) }

BpAddrs == {AddrDm, AddrDmAlias, AddrCtm}
SetBpBodies == { Str(<< "Z", "0", "," >>) \o a \o Str(<< ",", "4" >>) : a \in BpAddrs }
ClearBpBodies == { Str(<< "z", "0", "," >>) \o a \o Str(<< ",", "4" >>) : a \in BpAddrs }

StepBodies == { Str(<< "s" >>), Str(<< "S", "0", "5" >>) }
ContBodies == { Str(<< "c" >>), Str(<< "C", "0", "5" >>) }

\* Step and continue from an address, which is written to dpc first.
ResumeAtBodies == { Str(<< "s" >>) \o AddrDm, Str(<< "c" >>) \o AddrDmNext }

\* Writes of CSRs: dcsr (index 0x2b) with EBREAKM set and with STEP set,
\* mscratch (index 0x26).
DcsrEbreakm == << 0, 0, 0, 0, 64, 128, 0, 3 >>
DcsrStep == << 0, 0, 0, 0, 64, 0, 0, 7 >>
WriteCsrBodies ==
  { Str(<< "P", "2", "b", "=" >>) \o Fmt016x(swap_bytes(DcsrEbreakm)),
    Str(<< "P", "2", "b", "=" >>) \o Fmt016x(swap_bytes(DcsrStep)),
    Str(<< "P", "2", "6", "=" >>) \o Fmt016x(<< 1, 0, 0, 0, 0, 0, 0, 128 >>) }

\* Trailers that are not the two lowercase hex digits of the checksum:
\* no hex digits at all, a sign and a digit, upper case digits.
OddTrailers == { Str(<< "z", "z" >>), Str(<< "+", "0" >>), Str(<< "0", "G" >>) }

\* The frames with a trailer problem.
OddFrames ==
  { Off(b) : b \in {Str(<< "?" >>), NoAckBody, DetachBody,
                    Str(<< "Z", "0", "," >>) \o AddrDm \o Str(<< ",", "4" >>)} }
    \cup { WithTrailer(b, tr) : b \in {<< >>, Str(<< "?" >>), << 128, 128 >>},
                                tr \in OddTrailers }

(***************************************************************************)
(* One action per kind of packet                                           *)
(***************************************************************************)
\* The client can send while the connection is served.
Connected == phase = "connected" /\ stream = "open"

RecvOdd ==
  /\ Connected
  /\ \E f \in OddFrames : Serve(f)
CmdQuery ==
  /\ Connected
  /\ \E b \in QueryBodies : Serve(Good(b))
CmdNoAck ==
  /\ Connected
  /\ Serve(Good(NoAckBody))
CmdSupported ==
  /\ Connected
  /\ \E b \in SupportedBodies :
       /\ Serve(Good(b))
       /\ Len(client_v_support') <= MaxFeatures
CmdDetach ==
  /\ Connected
  /\ Serve(Good(DetachBody))
CmdSilent ==
  /\ Connected
  /\ \E b \in SilentBodies : Serve(Good(b))
CmdUnknown ==
  /\ Connected
  /\ \E b \in UnknownBodies : Serve(Good(b))
CmdReadRegs ==
  /\ Connected
  /\ Serve(Good(ReadRegsBody))
CmdReadReg ==
  /\ Connected
  /\ \E b \in ReadRegBodies : Serve(Good(b))
CmdWriteReg ==
  /\ Connected
  /\ \E b \in WriteRegBodies : Serve(Good(b))
CmdMemRead ==
  /\ Connected
  /\ \E b \in MemReadBodies : Serve(Good(b))
CmdMemReadLen ==
  /\ Connected
  /\ \E b \in MemReadLenBodies : Serve(Good(b))
CmdMemWriteHex ==
  /\ Connected
  /\ \E b \in MemWriteHexBodies : Serve(Good(b))
CmdMemWriteShort ==
  /\ Connected
  /\ \E b \in MemWriteShortBodies : Serve(Good(b))
CmdMemWrite ==
  /\ Connected
  /\ \E b \in MemWriteBodies : Serve(Good(b))
CmdSetBp ==
  /\ Connected
  /\ \E b \in SetBpBodies : Serve(Good(b))
CmdClearBp ==
  /\ Connected
  /\ \E b \in ClearBpBodies : Serve(Good(b))
CmdStep ==
  /\ Connected
  /\ \E b \in StepBodies : Serve(Good(b))
CmdCont ==
  /\ Connected
  /\ \E b \in ContBodies : Serve(Good(b))
CmdResumeAt ==
  /\ Connected
  /\ \E b \in ResumeAtBodies : Serve(Good(b))
CmdWriteCsr ==
  /\ Connected
  /\ \E b \in WriteCsrBodies : Serve(Good(b))

Next ==
  \/ Accept \/ AcceptError \/ Shutdown \/ CtrlC \/ ClientGone \/ RecvEnd
  \/ RecvOdd \/ CmdQuery \/ CmdNoAck \/ CmdSupported \/ CmdDetach \/ CmdSilent
  \/ CmdUnknown \/ CmdReadRegs \/ CmdReadReg \/ CmdWriteReg \/ CmdMemRead
  \/ CmdMemWrite \/ CmdSetBp \/ CmdClearBp \/ CmdStep \/ CmdCont
  \/ CmdResumeAt \/ CmdWriteCsr \/ CmdMemReadLen
  \/ CmdMemWriteHex \/ CmdMemWriteShort

Spec == Init /\ [][Next]_vars

(***************************************************************************)
(* Parts of the system.  The product of every command with every other is  *)
(* beyond exhaustive search, so the properties are checked on              *)
(* specifications that keep the whole run loop and let the client send     *)
(* the commands one family is about, in any number and order; the client   *)
(* of SpecFirst sends any one frame of any family after connecting.        *)
(***************************************************************************)
Loop == Accept \/ AcceptError \/ Shutdown \/ CtrlC \/ ClientGone \/ RecvEnd

\* Framing, acknowledgement and the commands that leave the target alone.
NextProto ==
  \/ Loop \/ RecvOdd \/ CmdQuery \/ CmdNoAck \/ CmdSupported \/ CmdDetach
  \/ CmdSilent \/ CmdUnknown
SpecProto == Init /\ [][NextProto]_vars

\* Breakpoints, memory writes and the end of the session.
NextBp ==
  \/ Accept \/ CmdSetBp \/ CmdClearBp \/ CmdMemWrite \/ CmdDetach \/ CmdSilent
SpecBp == Init /\ [][NextBp]_vars

\* Breakpoints only: no other command writes memory.
NextBpOnly == Accept \/ CmdSetBp \/ CmdClearBp
SpecBpOnly == Init /\ [][NextBpOnly]_vars

\* Register access.
NextReg == Accept \/ CmdReadReg \/ CmdWriteReg \/ CmdReadRegs
SpecReg == Init /\ [][NextReg]_vars

\* Step and continue, with the client's writes of CSRs between them.
NextRun == Accept \/ CmdWriteCsr \/ CmdStep \/ CmdCont \/ CmdResumeAt
SpecRun == Init /\ [][NextRun]_vars

\* Memory access: reads, writes and breakpoints.
NextMem == Accept \/ CmdMemRead \/ CmdMemWrite \/ CmdSetBp \/ CmdClearBp
SpecMem == Init /\ [][NextMem]_vars

\* The queries, between commands that change the session and the
\* registers.
NextStatic ==
  \/ Accept \/ CmdQuery \/ CmdSupported \/ CmdNoAck \/ CmdWriteCsr
SpecStatic == Init /\ [][NextStatic]_vars

\* Memory reads of every length, between writes.
NextRead ==
  Accept \/ CmdMemRead \/ CmdMemReadLen \/ CmdMemWrite \/ CmdMemWriteHex
SpecRead == Init /\ [][NextRead]_vars

\* Memory writes of every length, between reads.
NextWrite == Accept \/ CmdMemRead \/ CmdMemWrite \/ CmdMemWriteShort
SpecWrite == Init /\ [][NextWrite]_vars

(***************************************************************************)
(* The register tool (rfpc_reg.rs) and the wrappers it calls               *)
(***************************************************************************)
\* What the hart does with a halt or resume request: it follows it, or it
\* does not within the driver's deadline.
RequestOutcomes == {"ok", "hang"}

\* dmcontrol.haltreq: a running hart that follows enters debug mode with
\* dcsr.cause 3; a halted hart stays as it is.
HaltRequest(t, hw) ==
  IF t.hart = "halted" \/ hw = "hang" THEN t
  ELSE [t EXCEPT !.hart = "halted", !.reg[Dcsr] = WithCause(t.reg[Dcsr], 3)]

\* dmcontrol.resumereq: a halted hart that follows runs again.
ResumeRequest(t, hw) ==
  IF t.hart = "running" \/ hw = "hang" THEN t ELSE [t EXCEPT !.hart = "running"]

\* rfpc_dbg_halt: the halt request, then the poll for ALLHALTED, which
\* panics at its deadline.
rfpc_dbg_halt(d, hw) ==
  IF d.panic THEN d
  ELSE With(HaltRequest(d.t, hw),
            LAMBDA t1 : [t |-> t1, panic |-> t1.hart # "halted"])

\* rfpc_dbg_resume: the resume request, then the poll for ALLRUNNING, which
\* panics at its deadline.
rfpc_dbg_resume(d, hw) ==
  IF d.panic THEN d
  ELSE With(ResumeRequest(d.t, hw),
            LAMBDA t1 : [t |-> t1, panic |-> t1.hart # "running"])

\* read_rfpc_reg: val is what rfpc_dbg_read_reg returned.
read_rfpc_reg(d, reg_addr, hw_halt, hw_resume) ==
  With(rfpc_dbg_read_reg(rfpc_dbg_halt(d, hw_halt), reg_addr),
       LAMBDA r : [d |-> rfpc_dbg_resume(r, hw_resume), val |-> Data(r)])

\* A write_rfpc_reg that resumes the hart before the access.
write_rfpc_reg_resumes_first(d, reg_addr, value, hw_halt, hw_resume) ==
  rfpc_dbg_write_reg(rfpc_dbg_resume(rfpc_dbg_halt(d, hw_halt), hw_resume),
                     reg_addr, value)

\* write_rfpc_reg
write_rfpc_reg(d, reg_addr, value, hw_halt, hw_resume) ==
  rfpc_dbg_resume(rfpc_dbg_write_reg(rfpc_dbg_halt(d, hw_halt), reg_addr, value),
                  hw_resume)

\* The registers and values the tool is run with: x1, a1, mscratch, dcsr.
ToolRegs == {GprAddr(1), GprAddr(11), csr_regs[7], Dcsr}
ToolValues == { << 0, 0, 0, 0, 0, 0, 0, 1 >>, << 1, 0, 0, 0, 0, 0, 0, 128 >> }

\* One run of the tool left the target as d.t; the server is not involved.
ToolRan(d, kind, args, val) ==
  /\ target' = [d.t EXCEPT !.trace = << >>]
  /\ sent' = << >>
  /\ last' = [Event(kind) EXCEPT !.outcome = IF d.panic THEN "panic" ELSE "returned",
                                 !.args = args,
                                 !.resp = IF d.panic THEN << >> ELSE val]
  /\ UNCHANGED << phase, running, stream, disable_ack, breakpoints,
                  client_v_support, client_kv_support, ctm >>

\* rfpc_reg without a value: read_rfpc_reg.
ToolReadReg ==
  \E reg_addr \in ToolRegs, hw_halt \in RequestOutcomes, hw_resume \in RequestOutcomes :
    \E r \in {read_rfpc_reg(Drv(target), reg_addr, hw_halt, hw_resume)} :
      ToolRan(r.d, "read_rfpc_reg", << reg_addr >>, r.val)

\* rfpc_reg with a value: write_rfpc_reg.
ToolWriteReg ==
  \E reg_addr \in ToolRegs, value \in ToolValues,
     hw_halt \in RequestOutcomes, hw_resume \in RequestOutcomes :
    \E d \in {write_rfpc_reg(Drv(target), reg_addr, value, hw_halt, hw_resume)} :
      ToolRan(d, "write_rfpc_reg", << reg_addr, value >>, << >>)

NextTool == ToolReadReg \/ ToolWriteReg
SpecTool == Init /\ [][NextTool]_vars

(***************************************************************************)
(* The driver's routines called one after the other on the target, as the  *)
(* server's handlers and the tools call them, until one panics.  The       *)
(* accesses of the call are kept in last.dm.                               *)
(***************************************************************************)
DrvRegs == {GprAddr(10), GprAddr(11), Dcsr}
DrvValues == { << 0, 0, 0, 0, 0, 0, 128, 3 >> }

\* Addresses of both memory words and one that no memory answers.
DrvWord == << 1, 2, 3, 4, 5, 6, 7, 8 >>
DrvAddrs == { FromInt(8192), FromInt(8200), FromInt(12288) }
MaxCount == 2
DrvWordLists == { << >>, << DrvWord >>, << DrvWord, Zero64 >> }

DrvRan(d, kind, args, val) ==
  /\ last.outcome # "panic"
  /\ target' = [d.t EXCEPT !.trace = << >>]
  /\ sent' = << >>
  /\ last' = [Event(kind) EXCEPT !.outcome = IF d.panic THEN "panic" ELSE "returned",
                                 !.args = args,
                                 !.resp = IF d.panic THEN << >> ELSE val,
                                 !.dm = d.t.trace]
  /\ UNCHANGED << phase, running, stream, disable_ack, breakpoints,
                  client_v_support, client_kv_support, ctm >>

DrvReadReg ==
  \E reg_addr \in DrvRegs :
    \E d \in {rfpc_dbg_read_reg(Drv(target), reg_addr)} :
      DrvRan(d, "rfpc_dbg_read_reg", << reg_addr >>, Data(d))

DrvWriteReg ==
  \E reg_addr \in DrvRegs, value \in DrvValues :
    \E d \in {rfpc_dbg_write_reg(Drv(target), reg_addr, value)} :
      DrvRan(d, "rfpc_dbg_write_reg", << reg_addr, value >>, << >>)

DrvReadMemory ==
  \E address \in DrvAddrs, length \in 0..MaxCount :
    \E r \in {rfpc_dbg_read_memory(Drv(target), address, length)} :
      DrvRan(r.d, "rfpc_dbg_read_memory", << address, length >>, r.mem_words)

DrvWriteMemory ==
  \E address \in DrvAddrs, words \in DrvWordLists :
    \E d \in {rfpc_dbg_write_memory(Drv(target), address, words)} :
      DrvRan(d, "rfpc_dbg_write_memory", << address, words >>, << >>)

NextDriver == DrvReadReg \/ DrvWriteReg \/ DrvReadMemory \/ DrvWriteMemory
SpecDriver == Init /\ [][NextDriver]_vars

(***************************************************************************)
(* Address arithmetic (common.rs, explicit_bar.rs) on u64 values, which    *)
(* are tuples of 8 bytes with the most significant first.                  *)
(***************************************************************************)
\* Bit j of v, bit 0 being the least significant; 1 << k.
BitAt(v, j) == BitSet(v[8 - (j \div 8)], 2 ^ (j % 8))
Pow2(k) == [i \in 1..8 |-> IF 8 - i = k \div 8 THEN 2 ^ (k % 8) ELSE 0]

\* u64::leading_zeros
leading_zeros(v) ==
  IF v = Zero64 THEN 64
  ELSE 63 - (CHOOSE k \in 0..63 : BitAt(v, k) /\ \A j \in (k + 1)..63 : ~BitAt(v, j))

\* a < b, for tuples of one length.
LessU(a, b) ==
  \E j \in 1..Len(a) : a[j] < b[j] /\ \A k \in 1..(j - 1) : a[k] = b[k]

\* a - b modulo 2^64, and whether the subtraction overflows.
Borrow(a, b, i) == IF LessU(SubSeq(a, i + 1, 8), SubSeq(b, i + 1, 8)) THEN 1 ELSE 0
SubU64(a, b) ==
  [val |-> [i \in 1..8 |-> (256 + a[i] - b[i] - Borrow(a, b, i)) % 256],
   overflow |-> LessU(a, b)]

\* a & b
AndBit(x, y, bit) == IF BitSet(x, bit) /\ BitSet(y, bit) THEN bit ELSE 0
AndByte(x, y) ==
  AndBit(x, y, 1) + AndBit(x, y, 2) + AndBit(x, y, 4) + AndBit(x, y, 8)
    + AndBit(x, y, 16) + AndBit(x, y, 32) + AndBit(x, y, 64) + AndBit(x, y, 128)
AndU64(a, b) == [i \in 1..8 |-> AndByte(a[i], b[i])]

One64 == << 0, 0, 0, 0, 0, 0, 0, 1 >>
Mask48 == << 0, 0, 255, 255, 255, 255, 255, 255 >>

\* An arithmetic overflow panics in a build with overflow checks and
\* wraps in one without; the source does not fix the profile.
Builds == {"overflow-checks", "wrapping"}
NoSplit == [ok |-> FALSE, base |-> << >>, offset |-> << >>]

\* 1 << (64 - aperture.leading_zeros() - 1); for aperture 0 the shift
\* count underflows, and a wrapping build masks it to 63.
ApertureShift(aperture, build) ==
  IF aperture # Zero64 THEN Ok(Pow2(63 - leading_zeros(aperture)))
  ELSE IF build = "wrapping" THEN Ok(Pow2(63))
  ELSE Err

\* 0xFFFFFFFFFFFF - (aperture - 1)
ApertureMask(aperture, build) ==
  With(SubU64(Mask48, SubU64(aperture, One64).val),
       LAMBDA m : IF m.overflow /\ build # "wrapping" THEN Err ELSE Ok(m.val))

\* split_addr48 once the mask is there.
SplitWith(address, mask) ==
  IF ~mask.ok THEN NoSplit
  ELSE [ok |-> TRUE, base |-> AndU64(address, mask.val),
        offset |-> SubU64(address, AndU64(address, mask.val)).val]

\* split_addr48
split_addr48(address, aperture, build) ==
  With(ApertureShift(aperture, build),
       LAMBDA a : IF ~a.ok THEN NoSplit
                  ELSE SplitWith(address, ApertureMask(a.val, build)))

\* The base-address check of explicit_bar_cfg: it panics when
\* (base_addr & -base_addr).leading_zeros(), less 1 and not below 0, is in
\* 0..16.
BaseAddrRejected(base_addr) ==
  With(leading_zeros(AndU64(base_addr, SubU64(Zero64, base_addr).val)),
       LAMBDA lz : (IF lz = 0 THEN 0 ELSE lz - 1) \in 0..15)

\* explicit_bar_cfg: the check of the optional parameters, the check of
\* the base address, and cfg3 = (base_addr >> 16) as u32 as it is written.
explicit_bar_cfg(base_addr, sig_type_with_master) ==
  IF sig_type_with_master \/ BaseAddrRejected(base_addr)
  THEN [ok |-> FALSE, cfg3 |-> << >>]
  ELSE [ok |-> TRUE, cfg3 |-> SubSeq(base_addr, 3, 6)]

\* The addresses and apertures the functions are applied to: addresses
\* with bits 63, 48, 47, 16, 15 and 0 set or clear; apertures that are a
\* power of two and one above a power of two.
ArithAddresses ==
  { << h, g, a, 0, 0, b, c, d >> :
      h \in {0, 128}, g \in {0, 1}, a \in {0, 128}, b \in {0, 1},
      c \in {0, 128}, d \in {0, 1} }
ApertureBits == {0, 1, 12, 16, 20, 47, 48, 49, 63}
ArithApertures ==
  {Pow2(k) : k \in ApertureBits} \cup {AddU64(Pow2(k), 1) : k \in ApertureBits \ {0}}

InitArith ==
  /\ phase = "accepting"
  /\ running = TRUE
  /\ stream = "none"
  /\ disable_ack = FALSE
  /\ breakpoints = << >>
  /\ client_v_support = << >>
  /\ client_kv_support = << >>
  /\ target = InitTarget("running")
  /\ ctm = [a \in CtmAddrs |-> InitCtm(a)]
  /\ sent = << >>
  /\ \E address \in ArithAddresses, aperture \in ArithApertures :
       last = [Event("input") EXCEPT !.args = << address, aperture >>]

\* A pure function was applied to last.args and gave r.
Applied(kind, r) ==
  /\ last.kind = "input"
  /\ last' = [Event(kind) EXCEPT !.args = last.args, !.resp = r,
                                 !.outcome = IF r.ok THEN "returned" ELSE "panic"]
  /\ UNCHANGED << phase, running, stream, disable_ack, breakpoints,
                  client_v_support, client_kv_support, target, ctm, sent >>

SplitAddr48 ==
  \E build \in Builds :
    Applied("split_addr48", split_addr48(last.args[1], last.args[2], build))

ExplicitBarCfg ==
  \E sig_type_with_master \in BOOLEAN :
    Applied(IF sig_type_with_master THEN "explicit_bar_cfg, sig_type with master"
            ELSE "explicit_bar_cfg",
            explicit_bar_cfg(last.args[1], sig_type_with_master))

NextArith == SplitAddr48 \/ ExplicitBarCfg
SpecArith == InitArith /\ [][NextArith]_vars

(***************************************************************************)
(* Framing as functions: format_rsp_packet and parse_rsp_packet            *)
(***************************************************************************)
\* The reads of parse_rsp_packet on the bytes of a stream that ends after
\* them: bytes are skipped up to the first '$', the body is read up to the
\* next '#', and read_exact takes the two trailer bytes; ok is FALSE when
\* the stream ends before that.
ReadFrame(bytes) ==
  IF Position(bytes, 36) = 0 \/ Position(Drop(bytes, Position(bytes, 36)), 35) = 0
  THEN [ok |-> FALSE, body |-> << >>, trailer |-> << >>]
  ELSE With(Drop(bytes, Position(bytes, 36)),
            LAMBDA rest :
              IF Len(rest) < Position(rest, 35) + 2
              THEN [ok |-> FALSE, body |-> << >>, trailer |-> << >>]
              ELSE [ok |-> TRUE, body |-> Take(rest, Position(rest, 35) - 1),
                    trailer |-> SubSeq(rest, Position(rest, 35) + 1,
                                       Position(rest, 35) + 2)])

\* RspServer::parse_rsp_packet on the bytes of a stream.
ParseStream(disable_ack_, bytes) ==
  With(ReadFrame(bytes),
       LAMBDA f : IF ~f.ok THEN [ok |-> FALSE, buffer |-> << >>, writes |-> << >>]
                  ELSE parse_rsp_packet(disable_ack_, [body |-> f.body,
                                                       trailer |-> f.trailer]))

\* The payloads handed to format_rsp_packet: up to MaxPayload bytes, among
\* them the four bytes the protocol escapes.
MaxPayload == 3
PayloadBytes == {36, 35, 125, 42, 122, 79}
Payloads == UNION { [1..n -> PayloadBytes] : n \in 0..MaxPayload }

\* The raw bodies of two bytes that start with the escape byte.
EscapedBodies == { << 125, x >> : x \in {3, 4, 93, 10, 79} }

\* A server with either ack mode and a payload to frame.
InitFraming ==
  /\ phase = "accepting"
  /\ running = TRUE
  /\ stream = "none"
  /\ disable_ack \in BOOLEAN
  /\ breakpoints = << >>
  /\ client_v_support = << >>
  /\ client_kv_support = << >>
  /\ target = InitTarget("running")
  /\ ctm = [a \in CtmAddrs |-> InitCtm(a)]
  /\ sent = << >>
  /\ \E payload \in Payloads : last = [Event("input") EXCEPT !.args = payload]

\* format_rsp_packet applied to the payload.
FormatPacket ==
  /\ last.kind = "input"
  /\ sent' = << format_rsp_packet(last.args) >>
  /\ last' = [Event("format") EXCEPT !.resp = last.args]
  /\ UNCHANGED << phase, running, stream, disable_ack, breakpoints,
                  client_v_support, client_kv_support, target, ctm >>

\* The record of parse_rsp_packet on the bytes of a stream.
Parsed(bytes, kind) ==
  \E f \in {ReadFrame(bytes)} :
    \E p \in {ParseStream(disable_ack, bytes)} :
      /\ sent' = p.writes
      /\ last' = [Event(kind) EXCEPT !.body = f.body, !.trailer = f.trailer,
                                        !.accepted = p.ok, !.resp = p.buffer]
      /\ UNCHANGED << phase, running, stream, disable_ack, breakpoints,
                      client_v_support, client_kv_support, target, ctm >>

\* parse_rsp_packet applied to the frame format_rsp_packet has just made.
ParsePacket ==
  /\ last.kind = "format"
  /\ Parsed(sent[1], "parse")

\* parse_rsp_packet applied to a frame with an escaped byte, the trailer
\* being the sum of the raw body or the sum of what it decodes to.
ParseEscaped ==
  \E body \in EscapedBodies :
    \E trailer \in { Fmt02x(calculate_rsp_checksum(body)),
                     Fmt02x(calculate_rsp_checksum(Unescape(body, FALSE))) } :
      Parsed(<< 36 >> \o body \o << 35 >> \o trailer, "parse escaped")

NextFraming == FormatPacket \/ ParsePacket \/ ParseEscaped
SpecFraming == InitFraming /\ [][NextFraming]_vars

\* Any one frame as the first of a connection.
Fresh == last.kind = "accept"
NextFirst ==
  \/ Accept
  \/ Fresh /\ RecvOdd
  \/ Fresh /\ CmdQuery
  \/ Fresh /\ CmdNoAck
  \/ Fresh /\ CmdSupported
  \/ Fresh /\ CmdDetach
  \/ Fresh /\ CmdSilent
  \/ Fresh /\ CmdUnknown
  \/ Fresh /\ CmdReadRegs
  \/ Fresh /\ CmdReadReg
  \/ Fresh /\ CmdWriteReg
  \/ Fresh /\ CmdMemRead
  \/ Fresh /\ CmdMemWrite
  \/ Fresh /\ CmdSetBp
  \/ Fresh /\ CmdClearBp
  \/ Fresh /\ CmdStep
  \/ Fresh /\ CmdCont
SpecFirst == Init /\ [][NextFirst]_vars

(***************************************************************************)
(* Properties.  What the documentation says, stated over the frame the     *)
(* last iteration received (last), what it wrote (sent) and the server     *)
(* and target after it.                                                    *)
(***************************************************************************)
AckPlus == << 43 >>
AckMinus == << 45 >>

\* The writes of an iteration that are acknowledgement bytes.
AckWrites(writes) == {i \in 1..Len(writes) : writes[i] \in {AckPlus, AckMinus}}

\* The trailer as the protocol defines it: two hex digits and their value.
TwoHexDigits(trailer) ==
  /\ Len(trailer) = 2
  /\ \A i \in 1..2 : trailer[i] \in (48..57) \cup (97..102) \cup (65..70)
DigitValue(c) == IF c <= 57 THEN c - 48 ELSE IF c >= 97 THEN c - 87 ELSE c - 55
TrailerValue(trailer) == 16 * DigitValue(trailer[1]) + DigitValue(trailer[2])

\* The sum modulo 256 of the raw bytes between '$' and '#'.
RECURSIVE SumBytes(_)
SumBytes(bytes) ==
  IF bytes = << >> THEN 0 ELSE (Head(bytes) + SumBytes(Tail(bytes))) % 256

ChecksumMatches(e) ==
  TwoHexDigits(e.trailer) /\ TrailerValue(e.trailer) = SumBytes(e.body)
ChecksumMismatches(e) ==
  TwoHexDigits(e.trailer) /\ TrailerValue(e.trailer) # SumBytes(e.body)

Accepted(e) == e.kind = "packet" /\ e.accepted
Replied(e) == Accepted(e) /\ e.outcome = "reply"

\* C1: No-ack mode.  A QStartNoAckMode packet that is answered OK leaves the
\* server in no-ack mode, and from no-ack mode on every step stays in it and
\* writes neither '+' nor '-' to the stream.
C1_NoAckModeIsPermanent ==
  [][/\ (Replied(last') /\ last'.key = NoAckBody /\ last'.resp = TextOK) => disable_ack'
     /\ disable_ack => (disable_ack' /\ AckWrites(sent') = {})]_vars

\* A packet other than QStartNoAckMode answered in no-ack mode, the reply
\* being all that was written.
C1_Witness ==
  /\ disable_ack
  /\ Replied(last) /\ last.key # NoAckBody
  /\ sent = << format_rsp_packet(last.resp) >>

\* C2: While ack is enabled, the iteration for a completely received packet
\* writes exactly one acknowledgement byte, before anything else; for a
\* trailer of two hex digits it is '+' when their value is the sum of the
\* body and '-' when it is not.
C2_OneAckPerPacket ==
  [][(~disable_ack /\ last'.kind = "packet") =>
       /\ Cardinality(AckWrites(sent')) = 1
       /\ 1 \in AckWrites(sent')
       /\ ChecksumMatches(last') => sent'[1] = AckPlus
       /\ ChecksumMismatches(last') => sent'[1] = AckMinus]_vars

\* A packet with a wrong checksum answered with '-' while ack is enabled.
C2_Witness ==
  /\ ~disable_ack
  /\ last.kind = "packet" /\ ChecksumMismatches(last)
  /\ sent = << AckMinus >>

\* C3: A packet is accepted only if its trailer is two hex digits whose
\* value is the sum modulo 256 of the raw bytes of the body.
C3_AcceptedOnlyWithChecksum == Accepted(last) => ChecksumMatches(last)

\* C4: A packet whose checksum does not match is not accepted, and a packet
\* that is not accepted gets no reply packet (at most the '-') and leaves
\* the session state and the target as they were.
C4_MismatchIsDropped ==
  [][(last'.kind = "packet") =>
       /\ ChecksumMismatches(last') => ~last'.accepted
       /\ ~last'.accepted =>
            /\ last'.outcome = "dropped" /\ last'.key = NoKey
            /\ sent' \in {<< >>, << AckMinus >>}
            /\ UNCHANGED << disable_ack, breakpoints, client_v_support,
                            client_kv_support, target, ctm >>]_vars

\* A breakpoint packet with a wrong checksum was dropped.
C4_Witness ==
  /\ last.kind = "packet" /\ ChecksumMismatches(last)
  /\ last.body = Str(<< "Z", "0", "," >>) \o AddrDm \o Str(<< ",", "4" >>)
  /\ last.outcome = "dropped"
  /\ breakpoints = << >>

\* The command of a payload, and the keys of the table that are a prefix
\* of it.
CommandOf(payload) ==
  IF \E i \in 1..Len(payload) : payload[i] = 58
  THEN SubSeq(payload, 1, (CHOOSE i \in 1..Len(payload) :
                             payload[i] = 58 /\ \A j \in 1..(i - 1) : payload[j] # 58) - 1)
  ELSE payload
IsPrefixOf(key, text) == Len(key) <= Len(text) /\ SubSeq(text, 1, Len(key)) = key
PrefixKeys(payload) ==
  {key \in DOMAIN cmd_resp_map : IsPrefixOf(key, CommandOf(payload))}
LongestPrefixKeys(payload) ==
  {key \in PrefixKeys(payload) : \A other \in PrefixKeys(payload) : Len(other) <= Len(key)}

\* C5: Dispatch.  The key handle_packet ends with is the longest key that
\* is a prefix of the command, whatever the iteration order (no key of the
\* table is a prefix of another, so there is one such key at most); when
\* no key is a prefix the reply is the empty payload, framed as $#00.
C5_LongestPrefixDispatch ==
  /\ \A k1, k2 \in DOMAIN cmd_resp_map : (k1 # k2) => ~IsPrefixOf(k1, k2)
  /\ Accepted(last) =>
       /\ PrefixKeys(Unescape(last.body, FALSE)) # {} =>
            /\ LongestPrefixKeys(Unescape(last.body, FALSE)) = {last.key}
            /\ last.key \in DOMAIN cmd_resp_map
       /\ PrefixKeys(Unescape(last.body, FALSE)) = {} =>
            /\ last.key = NoKey
            /\ last.resp = << >>
            /\ sent[Len(sent)] = Str(<< "$", "#", "0", "0" >>)

\* A command that is no key itself was dispatched on the key that is its
\* prefix.
C5_Witness ==
  /\ Accepted(last)
  /\ last.body = Str(<< "q", "C", "1" >>)
  /\ last.key = Str(<< "q", "C" >>)
  /\ last.resp = Str(<< "-", "1" >>)

\* The word of target memory a breakpoint address names holds the ebreak
\* instruction 0x00100073 in its low 32 bits.
EbreakLive(address) ==
  IF IsCtm(address) THEN ctm[ToInt(MaskLow32(address))] = << 0, 16, 0, 115 >>
  ELSE SubSeq(Load64(target.mem, ToInt(MaskLow32(address))), 5, 8) = << 0, 16, 0, 115 >>

\* The addresses the client sets breakpoints at, as the server parses them.
BpAddresses == {ParseU64(a).val : a \in BpAddrs}
SameWord(a1, a2) == IsCtm(a1) = IsCtm(a2) /\ MaskLow32(a1) = MaskLow32(a2)

\* C6: Breakpoint cache invariant.  After every command, with the hart
\* halted, every key of breakpoints names a word that holds a patched
\* ebreak, and every word that holds one is named by a key.
C6_CacheIffPatched ==
  (last.kind = "packet" /\ target.hart = "halted") =>
    /\ \A a \in DOMAIN breakpoints : EbreakLive(a)
    /\ \A a \in BpAddresses :
         EbreakLive(a) => \E k \in DOMAIN breakpoints : SameWord(k, a)

\* The text after the first byte of Z0,<addr>,4 and z0,<addr>,4.
BpArgs(body) == SubSeq(body, 2, Len(body))

\* C7: Breakpoint restoration.  Z0,a,4 answered OK and immediately followed
\* by z0,a,4 answered OK leaves target memory as it was before the Z0 and
\* breakpoints without a, so empty when it was empty before.
C7_SetThenClearRestores ==
  [][(/\ Replied(last) /\ last.key = KeySetBp /\ last.resp = TextOK
      /\ Replied(last') /\ last'.key = KeyClearBp /\ last'.resp = TextOK
      /\ BpArgs(last'.body) = BpArgs(last.body)) =>
       /\ target'.mem = last.pre.mem
       /\ ctm' = last.pre.ctm
       /\ \A a \in DOMAIN breakpoints' : a \in DOMAIN last.pre.breakpoints
       /\ last.pre.breakpoints = << >> => breakpoints' = << >>]_vars

\* z0 answered OK right after the Z0 of the same address, on a halted hart
\* that had no breakpoint before.
C7_Witness ==
  /\ Replied(last) /\ last.key = KeyClearBp /\ last.resp = TextOK
  /\ last.after # NoFrame /\ Len(last.after) > 2
  /\ SubSeq(last.after, 1, 2) = KeySetBp
  /\ BpArgs(last.after) = BpArgs(last.body)
  /\ target.hart = "halted"
  /\ breakpoints = << >>
  /\ target.mem = [a \in MemAddrs |-> InitMem(a)]

\* C8: A detach leaves no patches.  When the session has been ended by D,
\* no word a key of breakpoints names still holds the ebreak.
C8_DetachLeavesNoPatch ==
  (last.kind = "packet" /\ last.outcome = "detach" /\ target.hart = "halted") =>
    \A a \in DOMAIN breakpoints : ~EbreakLive(a)

\* C9: A packet-loop iteration that meets the end of the stream or a socket
\* error leaves the packet loop and returns to accepting.
C9_DisconnectReturnsToAccept ==
  [][(last'.kind \in {"eof", "error"}) => phase' = "accepting"]_vars

\* The index and the value of P<i>=<v>, and the index of p<i>.
WriteIndexText(body) == SubSeq(body, 2, Position(body, 61) - 1)
WriteValueText(body) == SubSeq(body, Position(body, 61) + 1, Len(body))
ReadIndexText(body) == SubSeq(body, 2, Len(body))

\* The texts of the GPR indices 1..31: one or two lowercase hex digits, 01
\* to 1f.
GprIndexTexts ==
  { << c >> : c \in (49..57) \cup (97..102) }
    \cup { << 48, c >> : c \in (49..57) \cup (97..102) }
    \cup { << 49, c >> : c \in (48..57) \cup (97..102) }
Hex16(text) ==
  Len(text) = 16 /\ \A i \in 1..16 : text[i] \in (48..57) \cup (97..102) \cup (65..70)
\* A hex text with its digits in lower case: the same 64-bit value.
LowerCase(text) ==
  [i \in 1..Len(text) |-> IF text[i] \in 65..70 THEN text[i] + 32 ELSE text[i]]

IsRegWrite(e) ==
  /\ Replied(e) /\ e.key = Str(<< "P" >>) /\ e.resp = TextOK
  /\ Position(e.body, 61) # 0
  /\ WriteIndexText(e.body) \in GprIndexTexts
  /\ Hex16(WriteValueText(e.body))

Gprs(t) == [n \in 1..31 |-> t.reg[GprAddr(n)]]

KeyWriteReg == Str(<< "P" >>)
KeyReadRegs == Str(<< "g" >>)
KeysStep == {Str(<< "s" >>), Str(<< "S" >>)}
KeysCont == {Str(<< "c" >>), Str(<< "C" >>)}

\* The index an accepted P<idx>=<v> or p<idx> names, as a number; -1 when
\* the text is no hex number or the number is large.
IndexNumber(text) == IF ParseU64(text).ok THEN ToInt(ParseU64(text).val) ELSE -1
RegIndexOf(e) ==
  IF e.key = KeyWriteReg /\ Position(e.body, 61) # 0
  THEN IndexNumber(WriteIndexText(e.body))
  ELSE IF e.key = KeyReadReg THEN IndexNumber(ReadIndexText(e.body))
  ELSE -1

\* An accepted write of a CSR: P<idx>=<v> with idx in 32..57.
IsCsrWrite(e) == Accepted(e) /\ e.key = KeyWriteReg /\ RegIndexOf(e) \in 32..57

\* C11: A CSR write by the debugger (P<idx>=<v> with idx >= 32, the dpc
\* write of s<addr> / c<addr>, the dcsr updates inside step and continue)
\* leaves every GPR x1..x31, x11 among them, as it was before the command.
C11_CsrWritePreservesGprs ==
  [][(IsCsrWrite(last') \/ (Accepted(last') /\ last'.key \in StepKeys)) =>
       Gprs(target') = Gprs(target)]_vars

\* C12: From a running hart, a register command (g, p, P) that is answered
\* has issued each of its abstract register accesses with the hart halted:
\* the Debug Module has not refused one with cmderr 4 (halt/resume).
C12_RegisterAccessOnHaltedHart ==
  [][(/\ target.hart = "running" /\ target.cmderr = 0
      /\ Replied(last')
      /\ last'.key \in {KeyReadRegs, KeyReadReg, KeyWriteReg}) =>
       target'.cmderr # 4]_vars

TextE01 == Str(<< "E", "0", "1" >>)
TextE02 == Str(<< "E", "0", "2" >>)
TextE03 == Str(<< "E", "0", "3" >>)
TextE04 == Str(<< "E", "0", "4" >>)

\* The command was answered with resp and the server reads the next packet.
AnsweredWith(resp) ==
  /\ Replied(last) /\ last.resp = resp
  /\ sent[Len(sent)] = format_rsp_packet(resp)
  /\ phase = "connected"

\* C13: A step or continue whose poll for the halt reaches its deadline is
\* answered with E01, and the server stays up for the next packet.
C13_TimeoutRepliesE01 ==
  (Accepted(last) /\ last.hw = "hang") => AnsweredWith(TextE01)

\* The hart halted in the last command with a cause the command does not
\* expect: an ebreak (cause 1) in a step, a step (cause 4) in a continue.
CauseMismatch ==
  /\ Accepted(last) /\ target.hart = "halted"
  /\ \/ last.key \in KeysStep /\ last.hw = "ebreak"
        /\ DcsrCause(target.reg[Dcsr]) = 1
     \/ last.key \in KeysCont /\ last.hw = "step"
        /\ DcsrCause(target.reg[Dcsr]) = 4

\* C14: A step that halts with a dcsr.cause other than 4, or a continue
\* that halts with one other than 1, is answered with E02, and the server
\* stays up for the next packet.
C14_CauseMismatchRepliesE02 == CauseMismatch => AnsweredWith(TextE02)

\* The payload of the frame an iteration received.
Payload(e) == Unescape(e.body, FALSE)

\* The address of Z0,<addr>,<kind> and z0,<addr>,<kind>.
BpAddressOf(e) == ParseU64(SplitComma(Drop(Payload(e), 3)).first)

\* C15: z0,<addr>,<kind> for an address that is no key of breakpoints is
\* answered with E03, writes nothing to target memory, leaves breakpoints
\* as it was, and the server stays up for the next packet.
C15_ClearUnknownRepliesE03 ==
  [][(/\ Accepted(last') /\ last'.key = KeyClearBp
      /\ BpAddressOf(last').ok
      /\ BpAddressOf(last').val \notin DOMAIN breakpoints) =>
       /\ Replied(last') /\ last'.resp = TextE03
       /\ phase' = "connected"
       /\ target'.mem = target.mem /\ ctm' = ctm
       /\ breakpoints' = breakpoints]_vars

\* C16: p<idx> or P<idx>=<v> with an index above 57 is answered with E04
\* without any access to the Debug Module, and the server stays up for the
\* next packet.
C16_UnknownRegisterRepliesE04 ==
  [][(/\ Accepted(last') /\ last'.key \in {KeyReadReg, KeyWriteReg}
      /\ RegIndexOf(last') > 57) =>
       /\ Replied(last') /\ last'.resp = TextE04
       /\ phase' = "connected"
       /\ target' = target]_vars

\* A payload that lacks what its command needs: qSupported without ':',
\* m without ',', P without '=', M or X without ':', p or P with an index
\* that is no hex number.
Malformed(e) ==
  \/ e.key = TextSupported /\ Position(Payload(e), 58) = 0
  \/ e.key = Str(<< "m" >>) /\ Position(Payload(e), 44) = 0
  \/ e.key = KeyWriteReg /\ Position(Payload(e), 61) = 0
  \/ e.key \in {Str(<< "M" >>), Str(<< "X" >>)} /\ Position(Payload(e), 58) = 0
  \/ e.key = KeyReadReg /\ ~ParseU64(Drop(Payload(e), 1)).ok

\* C17: An accepted packet whose payload is malformed for its command is
\* answered with the empty payload, and the server stays up for the next
\* packet.
C17_MalformedRepliesEmpty ==
  (Accepted(last) /\ Malformed(last)) => AnsweredWith(<< >>)

\* A 64-bit value as it is written on the wire: the two lowercase hex
\* digits of each byte, the least significant byte first.
ByteOnWire(v, k) == v[9 - k]
LittleEndianHex(v) ==
  [i \in 1..16 |-> HexDigit(IF i % 2 = 1 THEN ByteOnWire(v, (i + 1) \div 2) \div 16
                                         ELSE ByteOnWire(v, i \div 2) % 16)]

\* The register of the combined index k: X0..X31, then the CSRs in the
\* order of the register file.
RegisterFile == gpr_regs \o csr_regs

\* C18: Endianness.  The reply to p<i> is the 16 lowercase hex characters
\* of the register's 64-bit value, least significant byte first
\* (0x1122334455667788 is sent as 8877665544332211), and the first 16
\* characters of the reply to g are those of x0.
C18_LittleEndianOnTheWire ==
  /\ LittleEndianHex(<< 17, 34, 51, 68, 85, 102, 119, 136 >>)
       = Str(<< "8", "8", "7", "7", "6", "6", "5", "5", "4", "4", "3", "3", "2", "2",
                "1", "1" >>)
  /\ (Replied(last) /\ last.key = KeyReadReg /\ RegIndexOf(last) \in 0..57) =>
       last.resp = LittleEndianHex(ReadRegNo(target, RegisterFile[RegIndexOf(last) + 1]))
  /\ (Replied(last) /\ last.key = KeyReadRegs) =>
       SubSeq(last.resp, 1, 16) = LittleEndianHex(ReadRegNo(target, RegisterFile[1]))

\* The text of a register index: one or two lowercase hex digits.
IndexText(k) ==
  IF k < 16 THEN << HexDigit(k) >> ELSE << HexDigit(k \div 16), HexDigit(k % 16) >>

\* What p<k> is answered with in the present state, and the replies to
\* p<lo> .. p<hi> one after the other.
ReadRegReply(k) == read_reg(Srv, KeyReadReg \o IndexText(k))
RECURSIVE ReadRegReplies(_, _)
ReadRegReplies(lo, hi) ==
  IF lo = hi THEN ReadRegReply(lo).resp
  ELSE ReadRegReplies(lo, (lo + hi) \div 2) \o ReadRegReplies(((lo + hi) \div 2) + 1, hi)

MemKeys ==
  {Str(<< "m" >>), Str(<< "M" >>), Str(<< "X" >>), KeySetBp, KeyClearBp}
MemAddressOf(e) ==
  IF e.key \in {KeySetBp, KeyClearBp} THEN BpAddressOf(e)
  ELSE ParseU64(SplitComma(Drop(Take(Payload(e), Position(Payload(e) \o << 58 >>, 58) - 1),
                                1)).first)

\* Bits 51:48 of an address, and the address with bits 63:32 cleared.
Nibble48(v) == v[2] % 16
Low32(v) == << 0, 0, 0, 0 >> \o SubSeq(v, 5, 8)

CtmRoutines == {"mem_read", "mem_write"}
DmRoutines == {"rfpc_dbg_read_memory", "rfpc_dbg_write_memory"}

\* The routines the address a is to be accessed through.
RoutinesFor(a) == IF Nibble48(a) = 1 THEN CtmRoutines ELSE DmRoutines

\* C20: Memory routing.  For m, M, X, Z0 and z0 every memory routine the
\* handler calls is given the address with bits 63:32 cleared; for an
\* address whose bits 51:48 are 1 only mem_read / mem_write are called and
\* the Debug Module is left alone, for any other address only the Debug
\* Module's memory routines are called and cluster-target memory is left
\* alone; an answered m, Z0 or z0 has called one (a write of length 0 is
\* answered without any).
C20_MemoryRouting ==
  [][(Accepted(last') /\ last'.key \in MemKeys /\ MemAddressOf(last').ok) =>
       /\ \A i \in 1..Len(last'.calls) :
            /\ last'.calls[i].address = Low32(MemAddressOf(last').val)
            /\ last'.calls[i].fn \in RoutinesFor(MemAddressOf(last').val)
       /\ Nibble48(MemAddressOf(last').val) = 1 => target' = target
       /\ Nibble48(MemAddressOf(last').val) # 1 => ctm' = ctm
       /\ (Replied(last') /\ last'.key \notin {Str(<< "M" >>), Str(<< "X" >>)}) =>
            last'.calls # << >>]_vars

\* Z0 at an address that differs from 0x2000 only above bit 31, answered
\* on a halted hart: the word at 0x2000 was read and written through the
\* Debug Module, and it holds the ebreak.
C20_Witness ==
  /\ Replied(last) /\ last.key = KeySetBp
  /\ BpAddressOf(last).val = << 0, 0, 0, 1, 0, 0, 32, 0 >>
  /\ last.calls = << [fn |-> "rfpc_dbg_read_memory", address |-> FromInt(8192)],
                     [fn |-> "rfpc_dbg_write_memory", address |-> FromInt(8192)] >>
  /\ target.hart = "halted"
  /\ SubSeq(Load64(target.mem, 8192), 5, 8) = Ebreak32

KeyMemRead == Str(<< "m" >>)

\* The length m<addr>,<len> asks for, -1 when there is none.
ReadLengthOf(e) ==
  IF Position(Payload(e), 44) = 0 THEN -1
  ELSE IndexNumber(SplitComma(Payload(e)).second)

\* An accepted m<addr>,<len> with an address and a length.
IsMemRead(e) ==
  /\ Accepted(e) /\ e.key = KeyMemRead
  /\ MemAddressOf(e).ok /\ ReadLengthOf(e) >= 0

\* The bytes of 64-bit words in memory order: of each word in turn, the
\* least significant byte first.
WordBytes(words) ==
  [j \in 1..(8 * Len(words)) |-> words[((j - 1) \div 8) + 1][8 - ((j - 1) % 8)]]

\* Two lowercase hex digits per byte.
HexOf(bytes) ==
  [i \in 1..(2 * Len(bytes)) |->
     HexDigit(IF i % 2 = 1 THEN bytes[(i + 1) \div 2] \div 16
                           ELSE bytes[i \div 2] % 16)]

\* The n bytes of target memory from byte address a.
MemBytes(t, a, n) == [k \in 1..n |-> t.mem[a + k - 1]]

\* The hex text of the bytes of memory the read e names.
MemBytesHex(t, e) ==
  HexOf(MemBytes(t, ToInt(Low32(MemAddressOf(e).val)), ReadLengthOf(e)))

\* The words the Debug Module's memory read returns for the read e asks
\* for, with the length rounded up to whole words.
WordsRead(t, e) ==
  rfpc_dbg_read_memory(Drv(t), Low32(MemAddressOf(e).val),
                       (ReadLengthOf(e) + 7) \div 8).mem_words

\* C21: m<addr>,<len> is answered with exactly 2*len hex characters.
\* Through the Debug Module they are the first len bytes of the
\* ceil(len/8) words read, each word's least significant byte first, in
\* increasing address order: on a halted hart the len bytes of memory from
\* addr.
C21_MemoryReadLength ==
  [][IsMemRead(last') =>
       /\ Replied(last')
       /\ Len(last'.resp) = 2 * ReadLengthOf(last')
       /\ Nibble48(MemAddressOf(last').val) # 1 =>
            /\ Len(WordsRead(target, last')) = (ReadLengthOf(last') + 7) \div 8
            /\ last'.resp = HexOf(SubSeq(WordBytes(WordsRead(target, last')),
                                         1, ReadLengthOf(last')))
            /\ (target.hart = "halted" /\ target.cmderr = 0) =>
                 last'.resp = MemBytesHex(target, last')]_vars

\* C21 witness: a nine-byte read of a halted hart was answered with the
\* eight bytes of one word and the first byte of the next.
C21_Witness ==
  /\ IsMemRead(last) /\ Replied(last)
  /\ ReadLengthOf(last) = 9
  /\ target.hart = "halted" /\ target.cmderr = 0
  /\ last.resp = MemBytesHex(target, last)
  /\ \E k \in 1..9 : MemBytes(target, 8192, 9)[k] # 0

\* C22: with the cluster-target word at 0x0001_0000_0000_1000 holding
\* 0xDEADBEEF, m0001000000001000,4 is answered efbeadde.
C22_CtmWordReply ==
  ( /\ Replied(last)
    /\ Payload(last) = Str(<< "m" >>) \o AddrCtmPadded \o Str(<< ",", "4" >>)
    /\ ctm[4096] = << 222, 173, 190, 239 >> )
  => last.resp = Str(<< "e", "f", "b", "e", "a", "d", "d", "e" >>)

KeyMemWriteHex == Str(<< "M" >>)

\* The text after the ':' of M<addr>,<len>:<hex>.
HexDataOf(e) == Drop(Payload(e), Position(Payload(e), 58))

\* The length M<addr>,<len>:<hex> names, -1 when there is none.
WriteLengthOf(e) ==
  ReadLengthOf([e EXCEPT !.body = Take(Payload(e), Position(Payload(e) \o << 58 >>, 58) - 1)])

\* The bytes a hex text encodes, two digits per byte.
BytesOfHex(h) ==
  [k \in 1..(Len(h) \div 2) |-> 16 * HexVal(h[2 * k - 1]) + HexVal(h[2 * k])]

\* C23: after M<addr>,<len>:<hex> is answered OK, the len bytes of target
\* memory from addr are the bytes <hex> encodes.
C23_HexWriteLands ==
  ( /\ Replied(last) /\ last.key = KeyMemWriteHex /\ last.resp = TextOK
    /\ MemAddressOf(last).ok /\ WriteLengthOf(last) > 0
    /\ Len(HexDataOf(last)) = 2 * WriteLengthOf(last) )
  => MemBytes(target, ToInt(Low32(MemAddressOf(last).val)), WriteLengthOf(last))
       = BytesOfHex(HexDataOf(last))

\* The byte an escaped byte stands for.
EscapedFor(x) ==
  CASE x = 3 -> 35 [] x = 4 -> 36 [] x = 93 -> 125 [] x = 10 -> 42 [] OTHER -> -1

\* A parsed frame whose body is 0x7d and the escaped form of '#', '$', '}'
\* or '*'.
IsEscapedPair(e) ==
  /\ e.kind = "parse escaped" /\ Len(e.body) = 2
  /\ e.body[1] = 125 /\ EscapedFor(e.body[2]) # -1

\* C24: a frame whose body is 0x7d, b XOR 0x20 for b one of '#', '$', '}',
\* '*' is accepted exactly when its trailer is the sum of the two raw bytes,
\* and then decodes to the one byte b.
C24_EscapeDecoding ==
  IsEscapedPair(last) =>
    /\ last.accepted <=> TrailerValue(last.trailer) = (125 + last.body[2]) % 256
    /\ last.accepted => last.resp = << EscapedFor(last.body[2]) >>
    /\ last.accepted => sent = (IF disable_ack THEN << >> ELSE << AckPlus >>)

\* C24 witness: the escaped '#' was decoded.
C24_Witness ==
  /\ IsEscapedPair(last) /\ last.accepted
  /\ last.body = << 125, 3 >> /\ last.resp = << 35 >>

\* A payload with none of '$', '#', '}', '*'.
PlainPayload(payload) == \A i \in 1..Len(payload) : payload[i] \notin {36, 35, 125, 42}

\* C25: for a payload P with none of '$', '#', '}', '*', format_rsp_packet
\* gives '$', P, '#' and the sum of P modulo 256 as two lowercase hex digits,
\* and parse_rsp_packet on that frame accepts it and gives P back.
C25_FramingRoundTrip ==
  [][/\ (last'.kind = "format" /\ PlainPayload(last'.resp)) =>
          sent' = << << 36 >> \o last'.resp \o << 35 >>
                     \o << HexDigit(SumBytes(last'.resp) \div 16),
                           HexDigit(SumBytes(last'.resp) % 16) >> >>
     /\ (last'.kind = "parse" /\ last.kind = "format" /\ PlainPayload(last.resp)) =>
          /\ last'.accepted /\ ChecksumMatches(last')
          /\ last'.resp = last.resp
          /\ last'.body = last.resp]_vars

\* C25 witness: a three-byte payload whose sum passes 255 came back.
C25_Witness ==
  /\ last.kind = "parse" /\ last.accepted
  /\ last.resp = << 122, 122, 79 >> /\ last.trailer = << 52, 51 >>

\* The writes of an iteration that are reply packets.
ReplyWrites(writes) == {i \in 1..Len(writes) : Head(writes[i]) = 36}

\* $OK#9a
PacketOK == Str(<< "$", "O", "K", "#", "9", "a" >>)

\* C26: an accepted packet produces at most one reply packet; while the
\* server acknowledges, the first thing written for it is '+', before the
\* reply packet, and QStartNoAckMode itself is answered +$OK#9a.
C26_AckBeforeReply ==
  [][Accepted(last') =>
       /\ Cardinality(ReplyWrites(sent')) <= 1
       /\ ~disable_ack =>
            /\ sent' # << >> /\ Head(sent') = AckPlus
            /\ AckWrites(sent') = {1}
            /\ (Replied(last') /\ Payload(last') = NoAckBody) =>
                 sent' = << AckPlus, PacketOK >>]_vars

\* C26 witness: QStartNoAckMode was acknowledged and answered.
C26_Witness ==
  /\ Replied(last) /\ Payload(last) = NoAckBody
  /\ sent = << AckPlus, PacketOK >> /\ disable_ack

\* C27: '-' is written only while the server acknowledges, and only for a
\* completely received packet whose trailer is not the checksum of its
\* body: never at the end of the stream or on a read error.
C27_NakOnlyOnMismatch ==
  [][(\E i \in 1..Len(sent') : sent'[i] = AckMinus) =>
       /\ ~disable_ack
       /\ last'.kind = "packet" /\ ~last'.accepted
       /\ ~ChecksumMatches(last')]_vars

\* The reply packets among the writes of an iteration, in order.
ReplyPackets(writes) == SelectSeq(writes, LAMBDA w : Head(w) = 36)

\* C28: a D packet is answered with the one reply packet $OK#9a and the
\* connection is closed with it: the packet loop is left, and while no
\* connection is open no packet is dispatched and no reply is written.
C28_DetachClosesConnection ==
  [][/\ (Accepted(last') /\ last'.key = DetachBody) =>
          /\ ReplyPackets(sent') = << PacketOK >>
          /\ stream' = "none" /\ phase' # "connected"
     /\ stream = "none" =>
          /\ last'.kind # "packet"
          /\ ReplyPackets(sent') = << >>]_vars

\* C28 witness: the server has detached.
C28_Witness ==
  /\ Accepted(last) /\ last.key = DetachBody
  /\ stream = "none" /\ phase = "stopped"
  /\ sent = << AckPlus, PacketOK >>

\* A run of one of the wrappers that returned.
WrapperReturned(e) ==
  e.kind \in {"read_rfpc_reg", "write_rfpc_reg"} /\ e.outcome = "returned"

\* C29: when read_rfpc_reg or write_rfpc_reg returns, the hart is running,
\* and the access was made on the halted hart between the halt and the
\* resume: the Debug Module did not refuse it, the value read is the
\* register's, and the register written holds the value.
C29_WrappersHaltAccessResume ==
  [][WrapperReturned(last') =>
       /\ target'.hart = "running"
       /\ target'.cmderr = 0
       /\ last'.kind = "read_rfpc_reg" => last'.resp = target'.reg[last'.args[1]]
       /\ last'.kind = "write_rfpc_reg" =>
            target'.reg[last'.args[1]] = last'.args[2]]_vars

\* C29 witness: mscratch was written through the wrapper on a hart that
\* was running before and runs again.
C29_Witness ==
  /\ WrapperReturned(last) /\ last.kind = "write_rfpc_reg"
  /\ last.args = << csr_regs[7], << 1, 0, 0, 0, 0, 0, 0, 128 >> >>
  /\ target.reg[csr_regs[7]] = << 1, 0, 0, 0, 0, 0, 0, 128 >>
  /\ target.hart = "running"

\* The reply the commands table gives for a payload, << 0 >> for a payload
\* that is none of ?, qAttached, qC, qOffsets, H<...>, qSupported:<...>.
StaticReply(payload) ==
  IF payload = Str(<< "?" >>) THEN Str(<< "S", "1", "2" >>)
  ELSE IF payload = Str(<< "q", "A", "t", "t", "a", "c", "h", "e", "d" >>)
  THEN Str(<< "1" >>)
  ELSE IF payload = Str(<< "q", "C" >>) THEN Str(<< "-", "1" >>)
  ELSE IF payload = Str(<< "q", "O", "f", "f", "s", "e", "t", "s" >>)
  THEN Str(<< "T", "e", "x", "t", "=", "0", "0", "0", ";", "D", "a", "t", "a", "=",
              "0", "0", "0", ";", "B", "s", "s", "=", "0", "0", "0" >>)
  ELSE IF IsPrefixOf(Str(<< "H" >>), payload) THEN Str(<< "O", "K" >>)
  ELSE IF IsPrefixOf(Str(<< "q", "S", "u", "p", "p", "o", "r", "t", "e", "d", ":" >>),
                     payload)
  THEN Str(<< "P", "a", "c", "k", "e", "t", "S", "i", "z", "e", "=", "1", "0", "0",
              "0", "0", "0", ";", "q", "M", "e", "m", "o", "r", "y", "R", "e", "a",
              "d", "+", ";", "s", "w", "b", "r", "e", "a", "k", "+" >>)
  ELSE << 0 >>

\* C30: ?, qAttached, qC, qOffsets, H<...> and qSupported:<...> are answered
\* with the text of the commands table whatever the session and the target
\* are, and without an access to the Debug Module or to memory: registers,
\* memory and breakpoints stay as they are.
C30_StaticReplies ==
  [][(Accepted(last') /\ StaticReply(Payload(last')) # << 0 >>) =>
       /\ Replied(last')
       /\ last'.resp = StaticReply(Payload(last'))
       /\ last'.calls = << >>
       /\ target' = target /\ ctm' = ctm /\ breakpoints' = breakpoints]_vars

\* C30 witness: H was answered OK in no-ack mode, after the client's
\* features were taken and mscratch was written.
C30_Witness ==
  /\ Replied(last) /\ IsPrefixOf(Str(<< "H" >>), Payload(last))
  /\ last.resp = Str(<< "O", "K" >>)
  /\ disable_ack /\ client_v_support # << >>
  /\ target.reg[csr_regs[7]] # InitReg(csr_regs[7])

\* The payloads of the kill packet and of the interrupt byte.
SilentPayloads == { Str(<< "k" >>), << 3 >> }

\* C31: a k packet and a 0x03 packet are accepted without a reply packet
\* and without an access to the Debug Module or to memory, and the packet
\* loop goes on with the connection open (unless ctrl-c has cleared
\* running, which ends the loop after any iteration).
C31_SilentCommands ==
  [][(Accepted(last') /\ Payload(last') \in SilentPayloads) =>
       /\ last'.outcome = "silent"
       /\ ReplyPackets(sent') = << >>
       /\ sent' = (IF disable_ack THEN << >> ELSE << AckPlus >>)
       /\ last'.calls = << >>
       /\ target' = target /\ ctm' = ctm /\ breakpoints' = breakpoints
       /\ disable_ack' = disable_ack
       /\ stream' = IF running THEN "open" ELSE "none"
       /\ running => phase' = "connected"]_vars

\* C31 witness: the interrupt byte was taken silently in no-ack mode and
\* the server waits for the next packet.
C31_Witness ==
  /\ Accepted(last) /\ Payload(last) = << 3 >>
  /\ last.outcome = "silent" /\ sent = << >>
  /\ disable_ack /\ phase = "connected" /\ stream = "open"

(***************************************************************************)
(* The order of the Debug Module accesses of the last command, read from   *)
(* last.dm.                                                                *)
(***************************************************************************)
\* The access at i is the csrrw of a CSR write (the value went into data
\* three accesses before); the access at q is the read of data that ends a
\* register read.
CsrWriteAt(tr, i, csr) ==
  /\ i - 3 >= 1 /\ i + 1 <= Len(tr)
  /\ tr[i - 3].op = "write data"
  /\ tr[i - 2] = Ev("command", 3346443, << >>)
  /\ tr[i - 1].op = "not busy"
  /\ tr[i] = Ev("write progbuf0", csr, << >>)
  /\ tr[i + 1] = Ev("command", 3538944, << >>)
CsrValueAt(tr, i) == tr[i - 3].val
RegReadAt(tr, q, reg) ==
  /\ q - 2 >= 1 /\ q <= Len(tr)
  /\ tr[q - 2] = Ev("command", 3276800 + reg, << >>)
  /\ tr[q - 1].op = "not busy"
  /\ tr[q].op = "read data"
OpAt(tr, i, op) == i \in DOMAIN tr /\ tr[i].op = op

\* The address of an s<addr> or c<addr> packet.
ResumeAddress(e) == ParseU64(Drop(e.body, 1)).val
AddressGiven(e) == e.key \in {Str(<< "s" >>), Str(<< "c" >>)} /\ Len(e.body) > 1

\* Before the resume request at j, dcsr was written with the bits set, and
\* dpc before that when the packet has an address.
SetBeforeResume(e, j, Bits(_)) ==
  \E k \in 1..j :
    /\ CsrWriteAt(e.dm, k, Dcsr) /\ Bits(CsrValueAt(e.dm, k))
    /\ AddressGiven(e) =>
         \E i \in 1..k : /\ CsrWriteAt(e.dm, i, Dpc)
                         /\ CsrValueAt(e.dm, i) = ResumeAddress(e)

\* A resume request, then ALLHALTED seen, then dcsr read with the cause,
\* then dcsr written with the bits clear.
HaltedThenCleared(e, cause, Clear(_)) ==
  \E j \in DOMAIN e.dm : \E p \in j..Len(e.dm) :
    \E q \in p..Len(e.dm) : \E w \in (q + 4)..Len(e.dm) :
      /\ OpAt(e.dm, j, "resumereq") /\ OpAt(e.dm, p, "allhalted")
      /\ RegReadAt(e.dm, q, Dcsr) /\ DcsrCause(e.dm[q].val) = cause
      /\ CsrWriteAt(e.dm, w, Dcsr) /\ Clear(CsrValueAt(e.dm, w))

StepSet(v) == BitSet(v[8], 4)
StepClear(v) == ~BitSet(v[8], 4)
EbreakSet(v) == BitSet(v[7], 128) /\ BitSet(v[7], 16)
EbreakClear(v) == ~BitSet(v[7], 128) /\ ~BitSet(v[7], 16)

\* C32: in a single step, dpc is written with the packet's address (when
\* there is one) before dcsr is written with STEP set, and that before the
\* resume request; S05 is sent only after ALLHALTED was seen, dcsr was read
\* with cause 4 and dcsr was written back with STEP clear.
C32_SingleStepOrdering ==
  (Accepted(last) /\ last.key \in KeysStep) =>
    /\ \A j \in DOMAIN last.dm :
         OpAt(last.dm, j, "resumereq") => SetBeforeResume(last, j, StepSet)
    /\ (Replied(last) /\ last.resp = TextS05) =>
         /\ HaltedThenCleared(last, 4, StepClear)
         /\ sent[Len(sent)] = format_rsp_packet(TextS05)

\* C32 witness: s2000 was answered S05 after the hart stepped from 0x2000.
C32_Witness ==
  /\ Replied(last) /\ last.body = Str(<< "s" >>) \o AddrDm
  /\ last.resp = TextS05 /\ last.hw = "step"
  /\ target.hart = "halted" /\ target.reg[Dpc] = FromInt(8196)

\* C33: in a continue, dcsr is written with EBREAKM and EBREAKU set before
\* the resume request (and dpc before that when the packet has an
\* address); S05 is sent only after ALLHALTED was seen, dcsr was read with
\* cause 1 and dcsr was written back with EBREAKM and EBREAKU clear.
C33_ContinueOrdering ==
  (Accepted(last) /\ last.key \in KeysCont) =>
    /\ \A j \in DOMAIN last.dm :
         OpAt(last.dm, j, "resumereq") => SetBeforeResume(last, j, EbreakSet)
    /\ (Replied(last) /\ last.resp = TextS05) =>
         /\ HaltedThenCleared(last, 1, EbreakClear)
         /\ sent[Len(sent)] = format_rsp_packet(TextS05)

\* C33 witness: c was answered S05 after the hart ran into an ebreak.
C33_Witness ==
  /\ Replied(last) /\ last.body = Str(<< "c" >>)
  /\ last.resp = TextS05 /\ last.hw = "ebreak"
  /\ target.hart = "halted" /\ DcsrCause(target.reg[Dcsr]) = 1

\* The driver's routines that issue abstract commands.
CommandRoutines ==
  {"rfpc_dbg_read_reg", "rfpc_dbg_write_reg", "rfpc_dbg_read_memory",
   "rfpc_dbg_write_memory"}

\* The access after the command at i is a busy-wait that saw BUSY clear
\* (or the busy-wait panicked at its deadline and nothing came after).
WaitedAfter(e, i) ==
  \/ i + 1 <= Len(e.dm) /\ e.dm[i + 1].op = "not busy"
  \/ i = Len(e.dm) /\ e.outcome = "panic"

\* C34: in the register and memory routines of the driver every write of
\* command is followed at once by a busy-wait that sees BUSY clear, before
\* any other access of command, data0/data1 or progbuf0; every read of
\* data0/data1 comes right after the busy-wait of the command before it.
C34_CommandHandshake ==
  last.kind \in CommandRoutines =>
    /\ \A i \in DOMAIN last.dm :
         OpAt(last.dm, i, "command") => WaitedAfter(last, i)
    /\ \A q \in DOMAIN last.dm :
         OpAt(last.dm, q, "read data") =>
           OpAt(last.dm, q - 1, "not busy") /\ OpAt(last.dm, q - 2, "command")

\* C34 witness: a memory write of two words has returned, after a memory
\* read of two words did; each issued its commands.
C34_Witness ==
  /\ last.kind = "rfpc_dbg_write_memory" /\ last.outcome = "returned"
  /\ Len(last.args[2]) = 2
  /\ Cardinality({i \in DOMAIN last.dm : last.dm[i].op = "command"}) = 8
  /\ target.cmderr = 0 /\ target.mem[8192] = 8

\* C35: rfpc_dbg_read_memory returns with x10 as it was at entry, and
\* rfpc_dbg_write_memory returns with x10 and x11 as they were at entry,
\* for every address and every count of words.
C35_ScratchRestored ==
  [][/\ (last'.kind = "rfpc_dbg_read_memory" /\ last'.outcome = "returned") =>
          target'.reg[GprAddr(10)] = target.reg[GprAddr(10)]
     /\ (last'.kind = "rfpc_dbg_write_memory" /\ last'.outcome = "returned") =>
          /\ target'.reg[GprAddr(10)] = target.reg[GprAddr(10)]
          /\ target'.reg[GprAddr(11)] = target.reg[GprAddr(11)]]_vars

\* The ALLHALTED seen at p came after the hart had left the halted state in
\* answer to the resume request.
HaltSeenAfterResume(tr, p) ==
  \E j \in 1..p : \E r \in j..p :
    OpAt(tr, j, "resumereq") /\ OpAt(tr, r, "hart resumes")

\* C36: a step or continue that starts with the hart halted and returns
\* has seen ALLHALTED only after the hart had resumed: it never returns on
\* the ALLHALTED from before the resume.
C36_NoStaleHalt ==
  [][(/\ Replied(last') /\ last'.key \in KeysStep \cup KeysCont
      /\ target.hart = "halted") =>
       \A p \in DOMAIN last'.dm :
         OpAt(last'.dm, p, "allhalted") => HaltSeenAfterResume(last'.dm, p)]_vars

\* C37: when Z0 and z0 are the only commands that write memory and every
\* one so far was answered OK, an empty breakpoints means that target
\* memory and cluster-target memory hold their original content.
C37_EmptyCacheMeansOriginalMemory ==
  (breakpoints = << >> /\ phase # "panicked") =>
    /\ target.mem = [a \in MemAddrs |-> InitMem(a)]
    /\ ctm = [a \in CtmAddrs |-> InitCtm(a)]

\* The first byte address and the length of an X or M packet.
WriteStart(e) == ToInt(Low32(MemAddressOf(e).val))
WrittenRange(e) == WriteStart(e)..(WriteStart(e) + WriteLengthOf(e) - 1)

\* C38: an X or M write of len > 0 bytes that is answered OK changes no
\* byte of target memory outside [addr, addr + len), also when len is no
\* multiple of 8; a write of len 0 changes nothing and calls no memory
\* routine.
C38_MemoryWriteFrame ==
  [][(/\ Replied(last') /\ last'.key \in {Str(<< "X" >>), Str(<< "M" >>)}
      /\ last'.resp = TextOK
      /\ MemAddressOf(last').ok /\ WriteLengthOf(last') >= 0) =>
       /\ WriteLengthOf(last') > 0 =>
            \A x \in MemAddrs :
              x \notin WrittenRange(last') => target'.mem[x] = target.mem[x]
       /\ WriteLengthOf(last') = 0 =>
            target' = target /\ ctm' = ctm /\ last'.calls = << >>]_vars

\* The largest power of two that is not above the aperture, as its bit
\* number.
ApertureBit(aperture) ==
  CHOOSE k \in 0..63 : BitAt(aperture, k) /\ \A j \in (k + 1)..63 : ~BitAt(aperture, j)

\* a + b without a carry out of 64 bits is v.
RECURSIVE SumCarry(_, _, _)
SumCarry(a, b, i) ==
  IF i = 8 THEN 0 ELSE (a[i + 1] + b[i + 1] + SumCarry(a, b, i + 1)) \div 256
IsSum(a, b, v) ==
  /\ \A i \in 1..8 : v[i] = (a[i] + b[i] + SumCarry(a, b, i)) % 256
  /\ (a[1] + b[1] + SumCarry(a, b, 1)) < 256

Is48Bit(v) == v[1] = 0 /\ v[2] = 0

\* C39: for a 48-bit address and an aperture of at least 1, split_addr48
\* returns (base, offset) with base + offset = address, base a multiple
\* of A and offset below A, A being the largest power of two that is not
\* above the aperture.
C39_SplitAddr48 ==
  (last.kind = "split_addr48" /\ Is48Bit(last.args[1]) /\ last.args[2] # Zero64) =>
    /\ last.resp.ok
    /\ IsSum(last.resp.base, last.resp.offset, last.args[1])
    /\ \A j \in 0..(ApertureBit(last.args[2]) - 1) : ~BitAt(last.resp.base, j)
    /\ \A j \in ApertureBit(last.args[2])..63 : ~BitAt(last.resp.offset, j)

\* The lower 16 bits of v are zero.
Low16Zero(v) == v[7] = 0 /\ v[8] = 0

\* C40: explicit_bar_cfg (with valid optional parameters) panics for
\* exactly the base addresses whose lower 16 bits are not all zero, and
\* for the others writes cfg3 = base_addr >> 16.
C40_BaseAddrCheck ==
  last.kind = "explicit_bar_cfg" =>
    /\ last.resp.ok = Low16Zero(last.args[1])
    /\ last.resp.ok => last.resp.cfg3 = SubSeq(last.args[1], 3, 6)

====
